---- MODULE Spec2Model ----
(***************************************************************************)
(* Build / run / verify harness of algo_owls_cli (owl_core + owl_utils).   *)
(* One invocation of run_program, test_program, quest or quest_once is a   *)
(* sequential process; pc is its position.  The environment (toolchain,    *)
(* file system, child processes) is chosen where the code observes it.     *)
(***************************************************************************)
EXTENDS Integers, Sequences, FiniteSets, TLC

\* ---------------------------------------------------------------- bounds
MaxCases == 3
MaxCaseId == 5
MaxLen == 2
MaxElapsed == 1
TicksPerMilli == 2
UsizeBits == 8
MaxBytes == 2
PipeCap == 2
MaxIn == 3
MaxOut == 3

\* ------------------------------------------------------------- Option<T>
None == <<>>
Some(x) == <<x>>
IsSome(o) == Len(o) = 1
Unwrap(o) == o[1]

\* usize arithmetic: wrapping subtraction (release profile)
UsizeMod == 2 ^ UsizeBits
WrappingSub(a, b) == (a - b) % UsizeMod

\* ---------------------------------------------------------------- texts
Alphabet == {"a", " ", "\n"}
StrsUpTo(n) == UNION {[1..k -> Alphabet] : k \in 0..n}
Strs == StrsUpTo(MaxLen)
ShortStrs == {s \in Strs : Len(s) <= 1}

\* -------------------------------------------------------------- languages
\* extension of the program path; "bin" stands for an unregistered one
Exts == {"c", "ml", "py", "bin"}

ProgOf(e) == IF e = "bin" THEN "main" ELSE "main." \o e

\* try_prog_lang: the profile registered for an extension, None if there is none
try_prog_lang(e) ==
    CASE e = "c"  -> Some([name |-> "c", shape |-> "ComptimeLang", should_build |-> TRUE,
                           run_cmd_str |-> "./binary", run_args |-> <<>>, post_run_args |-> <<>>])
      [] e = "ml" -> Some([name |-> "ocaml", shape |-> "OcamlLang", should_build |-> TRUE,
                           run_cmd_str |-> "./binary", run_args |-> <<>>, post_run_args |-> <<>>])
      [] e = "py" -> Some([name |-> "python", shape |-> "RuntimeLang", should_build |-> FALSE,
                           run_cmd_str |-> "python3", run_args |-> <<>>, post_run_args |-> <<>>])
      [] e = "js" -> Some([name |-> "javascript", shape |-> "RuntimeLang", should_build |-> FALSE,
                           run_cmd_str |-> "node", run_args |-> <<>>, post_run_args |-> <<>>])
      [] e = "java" -> Some([name |-> "java", shape |-> "CustomLang", should_build |-> TRUE,
                             run_cmd_str |-> "java",
                             run_args |-> <<"-Dfile.encoding=UTF-8", "-XX:+UseSerialGC", "-Xss64m">>,
                             post_run_args |-> <<>>])
      [] e = "kt" -> Some([name |-> "kotlin", shape |-> "CustomLang", should_build |-> TRUE,
                           run_cmd_str |-> "kotlin",
                           run_args |-> <<"-J-XX:+UseSerialGC", "-J-Xss64m">>,
                           post_run_args |-> <<>>])
      [] e = "ts" -> Some([name |-> "typescript", shape |-> "CustomLang", should_build |-> TRUE,
                           run_cmd_str |-> "node", run_args |-> <<>>, post_run_args |-> <<>>])
      [] e = "erl" -> Some([name |-> "erlang", shape |-> "ErlLang", should_build |-> TRUE,
                            run_cmd_str |-> "erl", run_args |-> <<"-run">>,
                            post_run_args |-> <<"-s", "init", "stop", "-noshell">>])
      [] OTHER    -> None

\* extension of a path of the model
ExtOfPath(p) ==
    CASE p = "main.c"  -> "c"
      [] p = "main.ml" -> "ml"
      [] p = "main.py" -> "py"
      [] OTHER         -> "bin"

check_prog_lang(p) == try_prog_lang(ExtOfPath(p))

\* ProgLang::target_path for the stem "main"
target_path(lang) == "main"

\* ProgLang::build_files for the stem "main"
build_files_of(lang) ==
    IF lang.shape = "OcamlLang"
    THEN Some(<<"main.cmi", "main.cmx", "main.o">>)
    ELSE None

Range(s) == {s[i] : i \in 1..Len(s)}

\* ------------------------------------------------------ one test case
\* what the harness finds on disk and in the child for one case
InFiles == {"absent", "binary", "text"}
AnsFiles(S) == {[st |-> "absent", s |-> <<>>], [st |-> "binary", s |-> <<>>]}
                 \cup {[st |-> "text", s |-> x] : x \in S}
Children(S) == {[kind |-> k, out |-> <<>>, elapsed |-> 0] :
                    k \in {"spawn_fail", "write_fail", "nonzero", "bad_utf8"}}
                 \cup {[kind |-> "ok", out |-> x, elapsed |-> e] : x \in S, e \in 0..MaxElapsed}
CaseEnvs(S) == [in_file : InFiles, ans_file : AnsFiles(S), child : Children(S)]

Ok(e) == [kind |-> "Ok", elapsed |-> e, spawned |-> TRUE]
Err(k, sp) == [kind |-> k, elapsed |-> 0, spawned |-> sp]
Panic == [kind |-> "panic", elapsed |-> 0, spawned |-> FALSE]
IsOk(r) == r.kind = "Ok"

\* ProgLang::command_exists for a toolchain state: version().is_ok(), where
\* version() panics when the version command cannot be spawned
command_exists(tc) ==
    CASE tc = "ok"      -> "true"
      [] tc = "nonzero" -> "false"
      [] OTHER          -> "panic"

\* text without its trailing whitespace
RECURSIVE TrimEnd(_)
TrimEnd(s) ==
    IF s # <<>> /\ s[Len(s)] \in {" ", "\n"} THEN TrimEnd(SubSeq(s, 1, Len(s) - 1)) ELSE s

\* a comparison that ignores trailing whitespace
OutputMatchesTrimmed(actual, ans) == TrimEnd(actual) = TrimEnd(ans)

\* the comparison of test_it, on whole strings
OutputMatches(actual, ans) == actual = ans

\* run_cmd_with_stdin, then the comparison closure of test_it
RunAndCompare(c, ans) ==
    CASE c.kind = "spawn_fail" -> Err("ProcessError", FALSE)
      [] c.kind = "write_fail" -> Err("FileError", TRUE)
      [] c.kind = "nonzero"    -> Err("ProcessError", TRUE)
      [] c.kind = "bad_utf8"   -> Err("FileError", TRUE)
      [] OTHER -> IF OutputMatches(c.out, ans) THEN Ok(c.elapsed)
                  ELSE Err("TestFailure", TRUE)

\* a test_it that takes a missing answer file for an empty answer
TestItAnsOptional(target_exists, lang, tc, env) ==
    IF ~target_exists THEN Err("FileError", FALSE)
    ELSE IF env.in_file = "absent" THEN Err("FileError", FALSE)
    ELSE IF env.in_file = "binary" THEN Err("FileError", FALSE)
    ELSE IF env.ans_file.st = "binary" THEN Err("FileError", FALSE)
    ELSE IF IsSome(lang) /\ command_exists(tc) = "panic" THEN Panic
    ELSE IF IsSome(lang) /\ command_exists(tc) = "false" THEN Err("CommandNotFound", FALSE)
    ELSE RunAndCompare(env.child, env.ans_file.s)

\* test_it(target, in_file, ans_file)
test_it(target_exists, lang, tc, env) ==
    IF ~target_exists THEN Err("FileError", FALSE)
    ELSE IF env.in_file = "absent" THEN Err("FileError", FALSE)
    ELSE IF env.ans_file.st = "absent" THEN Err("FileError", FALSE)
    ELSE IF env.in_file = "binary" THEN Err("FileError", FALSE)
    ELSE IF env.ans_file.st = "binary" THEN Err("FileError", FALSE)
    ELSE IF IsSome(lang) /\ command_exists(tc) = "panic" THEN Panic
    ELSE IF IsSome(lang) /\ command_exists(tc) = "false" THEN Err("CommandNotFound", FALSE)
    ELSE RunAndCompare(env.child, env.ans_file.s)

\* the hint display chain of quest_it: bat, else glow, else plain read
Hints == {"bat", "glow", "plain", "unshown"}

\* a quest_it that goes through the hint chain before it looks at the result
QuestItHintFirst(target_exists, lang, tc, env, hints, hint) ==
    LET r == test_it(target_exists, lang, tc, env) IN
    IF r.kind = "panic" THEN [ret |-> "panic", elapsed |-> None, spawned |-> FALSE]
    ELSE IF hints /\ hint = "unshown" THEN [ret |-> "err", elapsed |-> None, spawned |-> r.spawned]
    ELSE IF IsOk(r) THEN [ret |-> "pass", elapsed |-> Some(r.elapsed), spawned |-> TRUE]
    ELSE [ret |-> "fail", elapsed |-> None, spawned |-> r.spawned]

\* quest_it(target, test_case, count, total, use_hints):
\* ret is "pass" for Ok((true, Some(e))), "fail" for Ok((false, None)),
\* "err" for Err(_), "panic" when the version command cannot be spawned
quest_it(target_exists, lang, tc, env, hints, hint) ==
    LET r == test_it(target_exists, lang, tc, env) IN
    IF r.kind = "panic" THEN [ret |-> "panic", elapsed |-> None, spawned |-> FALSE]
    ELSE IF IsOk(r) THEN [ret |-> "pass", elapsed |-> Some(r.elapsed), spawned |-> TRUE]
    ELSE IF hints /\ hint = "unshown" THEN [ret |-> "err", elapsed |-> None, spawned |-> r.spawned]
    ELSE [ret |-> "fail", elapsed |-> None, spawned |-> r.spawned]

\* ------------------------------------------------------------- cleanup
\* a removal that reports a missing path as an error
RemovePathStrict(files, p, deny) ==
    IF p \notin files \/ p = deny THEN [fs |-> files, ok |-> FALSE]
    ELSE [fs |-> files \ {p}, ok |-> TRUE]

\* fs_utils::remove_path: Ok without effect on a missing path; deny is the
\* path (if any) the file system refuses to remove
remove_path(files, p, deny) ==
    IF p \notin files THEN [fs |-> files, ok |-> TRUE]
    ELSE IF p = deny THEN [fs |-> files, ok |-> FALSE]
    ELSE [fs |-> files \ {p}, ok |-> TRUE]

RECURSIVE RemoveAll(_, _, _)
RemoveAll(files, paths, deny) ==
    IF paths = <<>> THEN [fs |-> files, ok |-> TRUE]
    ELSE LET r == remove_path(files, Head(paths), deny) IN
         IF ~r.ok THEN r ELSE RemoveAll(r.fs, Tail(paths), deny)

\* a cleanup that removes the target without comparing it to prog
CleanupTargetAlways(files, prog, tgt, bfs, deny) ==
    LET r == remove_path(files, tgt, deny) IN
    IF ~r.ok THEN r
    ELSE IF IsSome(bfs) THEN RemoveAll(r.fs, Unwrap(bfs), deny)
    ELSE r

\* cleanup_program(prog, target, build_files)
cleanup_program(files, prog, tgt, bfs, deny) ==
    LET r == IF tgt # prog THEN remove_path(files, tgt, deny)
             ELSE [fs |-> files, ok |-> TRUE] IN
    IF ~r.ok THEN r
    ELSE IF IsSome(bfs) THEN RemoveAll(r.fs, Unwrap(bfs), deny)
    ELSE r

\* --------------------------------------------------------------- state
VARIABLES
    cmd,            \* the entry point invoked
    ext,            \* extension of prog
    case_id,        \* quest: Option<usize>
    use_hints,      \* quest, quest_once
    test_name,      \* quest_once: the stem asked for
    overflow_checks,\* build profile: arithmetic overflow panics (debug) or wraps
    pc,             \* position of the invocation
    result,         \* "running", "Ok", "panic" or the OwlError kind returned
    origin,         \* the step that produced the result
    fs,             \* paths that exist, among prog, target and build files
    toolchain,      \* how the version command behaves: "unknown" until asked
    target,         \* target path of the invocation
    build_files,    \* Option<Vec<PathBuf>> of the BuildLog
    built,          \* build_program returned Some(BuildLog)
    build_result,   \* "none", or what build_program returned: "Some", "None", an error kind
    build_spawns,   \* build commands spawned
    case_spawns,    \* children spawned for test cases (or the run)
    total,          \* test_cases.len()
    cases,          \* quest_once: stems of the .in files, in directory-walk order
    count,          \* loop counter of quest
    it,             \* iterator skip(..).take(..): next index and items left
    passed, failed, total_duration,
    log,            \* evaluations so far: position, result, elapsed, result without hints
    summary,        \* Option of the printed <<passed, failed, elapsed>>
    cleanup_calls,  \* calls of cleanup_program
    tin, tout,      \* an operation called on its own: inputs and result
    last,           \* quest, quest_once: the latest call of quest_it
    child,          \* the executor on its own: the child process
    pipes,          \* the executor on its own: the pipes between parent and child
    threads,        \* reader threads of the threaded executor; download futures of fetch
    shared          \* what they share: the channels; the temporary archive and the quest directories

params == <<cmd, ext, case_id, use_hints, overflow_checks, test_name>>

vars == <<params, pc, result, origin, fs,
          toolchain, target, build_files, built, build_result, build_spawns, case_spawns,
          total, cases, count, it, passed, failed, total_duration, log, summary,
          cleanup_calls, tin, tout, last, child, pipes, threads, shared>>

prog == ProgOf(ext)

\* no call of quest_it yet
NoEval == [pos |-> 0, ret |-> "none", nh |-> "none", absent |-> FALSE, spawned |-> FALSE]

\* no child process, no pipe
NoChild == [pc |-> "none"]
NoPipes == [stdin |-> 0, stdin_open |-> FALSE, reader_open |-> FALSE, stdout |-> 0, stderr |-> 0]
\* no thread, nothing shared
NoThreads == <<>>
NoShared == <<>>
NoTest == [target_exists |-> FALSE, lang |-> None, tc |-> "unknown",
           env |-> [in_file |-> "absent", ans_file |-> [st |-> "absent", s |-> <<>>],
                    child |-> [kind |-> "spawn_fail", out |-> <<>>, elapsed |-> 0]]]

\* file stems of the model
Stems == {"s1", "s2"}

CaseIds == {None} \cup {Some(d) : d \in 0..MaxCaseId}

InitCommon ==
    /\ pc = "start" /\ result = "running" /\ origin = "none"
    /\ fs = {} /\ toolchain = "unknown"
    /\ target = prog /\ build_files = None /\ built = FALSE /\ build_result = "none"
    /\ build_spawns = 0 /\ case_spawns = 0
    /\ total = 0 /\ cases = <<>> /\ count = 0 /\ it = [pos |-> 0, left |-> 0]
    /\ passed = 0 /\ failed = 0 /\ total_duration = None
    /\ log = <<>> /\ summary = None /\ cleanup_calls = 0
    /\ tin = NoTest /\ tout = Panic
    /\ last = NoEval /\ child = NoChild /\ pipes = NoPipes
    /\ threads = NoThreads /\ shared = NoShared

Init ==
    /\ cmd \in {"quest", "quest_once", "test_program", "run_program"}
    /\ ext \in Exts
    /\ case_id \in (IF cmd = "quest" THEN CaseIds ELSE {None})
    /\ use_hints \in (IF cmd \in {"quest", "quest_once"} THEN BOOLEAN ELSE {FALSE})
    /\ overflow_checks \in (IF cmd = "quest" /\ case_id = Some(0) THEN BOOLEAN ELSE {FALSE})
    /\ test_name \in (IF cmd = "quest_once" THEN Stems ELSE {"s1"})
    /\ InitCommon

Return(r, o) == pc' = "done" /\ result' = r /\ origin' = o

\* quest, quest_once: the quest directory is there or fetched, prog exists
QuestStart ==
    /\ pc = "start" /\ cmd \in {"quest", "quest_once"}
    /\ \E fetched \in BOOLEAN, prog_exists \in BOOLEAN :
        IF ~fetched THEN Return("NetworkError", "fetch") /\ UNCHANGED fs
        ELSE IF ~prog_exists THEN Return("FileError", "start") /\ UNCHANGED fs
        ELSE pc' = "build_program" /\ fs' = {prog} /\ UNCHANGED <<result, origin>>
    /\ UNCHANGED <<params, threads, shared, child, pipes, last, toolchain, target,
                   build_files, built, build_result, build_spawns, case_spawns, total, cases, count, it,
                   passed, failed, total_duration, log, summary, cleanup_calls, tin, tout>>

\* run_program: prog exists; an unregistered extension is run as a binary
RunStart ==
    /\ pc = "start" /\ cmd = "run_program"
    /\ \E prog_exists \in BOOLEAN, child_ok \in BOOLEAN :
        IF ~prog_exists
        THEN Return("FileError", "start") /\ UNCHANGED <<fs, case_spawns>>
        ELSE IF IsSome(check_prog_lang(prog))
        THEN pc' = "build_program" /\ fs' = {prog} /\ UNCHANGED <<result, origin, case_spawns>>
        ELSE /\ fs' = {prog} /\ case_spawns' = case_spawns + 1
             /\ Return(IF child_ok THEN "Ok" ELSE "ProcessError", "run")
    /\ UNCHANGED <<params, threads, shared, child, pipes, last, toolchain, target,
                   build_files, built, build_result, build_spawns, total, cases, count, it,
                   passed, failed, total_duration, log, summary, cleanup_calls, tin, tout>>

\* test_program: no existence check of prog; an unregistered extension goes
\* straight to test_it on prog
TestStart ==
    /\ pc = "start" /\ cmd = "test_program"
    /\ \E prog_exists \in BOOLEAN :
        /\ fs' = IF prog_exists THEN {prog} ELSE {}
        /\ pc' = IF IsSome(check_prog_lang(prog)) THEN "build_program" ELSE "test"
    /\ UNCHANGED <<params, threads, shared, child, pipes, last, result, origin, toolchain,
                   target, build_files, built, build_result, build_spawns, case_spawns, total, cases, count, it,
                   passed, failed, total_duration, log, summary, cleanup_calls, tin, tout>>

AfterBuild ==
    CASE cmd = "quest"        -> "find_by_ext"
      [] cmd = "quest_once"   -> "find_by_stem_and_ext"
      [] cmd = "test_program" -> "test"
      [] OTHER                -> "run"

\* what the version command of the toolchain does when first asked
Toolchains == {"ok", "nonzero", "nospawn"}

\* build_program returns Err(kind): every caller applies `?` to it
BuildFailedIgnored(kind) ==
    /\ build_result' = kind
    /\ pc' = AfterBuild /\ UNCHANGED <<result, origin>>

BuildFailed(kind) ==
    /\ build_result' = kind
    /\ Return(kind, "build")

\* build_program up to the build itself: resolve the profile, check the
\* toolchain, decide whether a build is needed
BuildProgram ==
    /\ pc = "build_program"
    /\ LET lang == check_prog_lang(prog) IN
       IF ~IsSome(lang)
       THEN /\ pc' = AfterBuild /\ build_result' = "None"
            /\ UNCHANGED <<result, origin, toolchain>>
       ELSE \E tc \in Toolchains :
            /\ toolchain' = tc
            /\ CASE command_exists(tc) = "panic" ->
                      Return("panic", "build") /\ UNCHANGED build_result
                 [] command_exists(tc) = "false" -> BuildFailed("CommandNotFound")
                 [] OTHER ->
                      IF Unwrap(lang).should_build
                      THEN pc' = "build" /\ UNCHANGED <<result, origin, build_result>>
                      ELSE /\ pc' = AfterBuild /\ build_result' = "None"
                           /\ UNCHANGED <<result, origin>>
    /\ UNCHANGED <<params, threads, shared, child, pipes, last, fs, target,
                   build_files, built, build_spawns, case_spawns, total, cases, count, it,
                   passed, failed, total_duration, log, summary, cleanup_calls, tin, tout>>

BuildOutcomes == {"ok", "nonzero", "bad_utf8"}

\* ProgLang::build and the tail of build_program
Build ==
    /\ pc = "build"
    /\ LET lang == Unwrap(check_prog_lang(prog))
           tgt  == target_path(lang)
           bfs  == build_files_of(lang)
           made == {tgt} \cup (IF IsSome(bfs) THEN Range(Unwrap(bfs)) ELSE {})
       IN
       /\ build_spawns' = build_spawns + 1
       /\ \E o \in (IF prog \in fs THEN BuildOutcomes ELSE {"nonzero"}) :
            CASE o = "nonzero"  -> /\ BuildFailed("ProcessError")
                                   /\ UNCHANGED <<fs, target, build_files, built>>
              [] o = "bad_utf8" -> /\ BuildFailed("FileError")
                                   /\ \E produced \in SUBSET made : fs' = fs \cup produced
                                   /\ UNCHANGED <<target, build_files, built>>
              [] OTHER -> /\ \E produced \in SUBSET made : fs' = fs \cup produced
                          /\ target' = tgt /\ build_files' = bfs /\ built' = TRUE
                          /\ build_result' = "Some"
                          /\ pc' = AfterBuild /\ UNCHANGED <<result, origin>>
    /\ UNCHANGED <<params, threads, shared, child, pipes, last, toolchain,
                   case_spawns, total, cases, count, it,
                   passed, failed, total_duration, log, summary, cleanup_calls, tin, tout>>

\* a find_by_ext that hands an empty list to quest
FindByExtAllowsEmpty ==
    /\ pc = "find_by_ext"
    /\ \E n \in 0..MaxCases :
        /\ total' = n
        /\ IF IsSome(case_id)
           THEN LET d == Unwrap(case_id) IN
                IF d = 0 /\ overflow_checks
                THEN Return("panic", "select") /\ UNCHANGED <<count, it>>
                ELSE /\ count' = WrappingSub(d, 1)
                     /\ it' = [pos |-> WrappingSub(d, 1), left |-> (d + 1) - d]
                     /\ pc' = "loop" /\ UNCHANGED <<result, origin>>
           ELSE /\ count' = 0 /\ it' = [pos |-> 0, left |-> n - 0]
                /\ pc' = "loop" /\ UNCHANGED <<result, origin>>
    /\ UNCHANGED <<params, threads, shared, child, pipes, last, fs, toolchain, target,
                   build_files, built, build_result, build_spawns, case_spawns, cases,
                   passed, failed, total_duration, log, summary, cleanup_calls, tin, tout>>

\* quest: find_by_ext, then the selection window (start, end, count)
FindByExt ==
    /\ pc = "find_by_ext"
    /\ \E n \in 0..MaxCases :
        IF n = 0
        THEN Return("FileError", "find") /\ UNCHANGED <<total, count, it>>
        ELSE /\ total' = n
             /\ IF IsSome(case_id)
                THEN LET d == Unwrap(case_id) IN
                     IF d = 0 /\ overflow_checks
                     THEN Return("panic", "select") /\ UNCHANGED <<count, it>>
                     ELSE /\ count' = WrappingSub(d, 1)
                          /\ it' = [pos |-> WrappingSub(d, 1), left |-> (d + 1) - d]
                          /\ pc' = "loop" /\ UNCHANGED <<result, origin>>
                ELSE /\ count' = 0 /\ it' = [pos |-> 0, left |-> n - 0]
                     /\ pc' = "loop" /\ UNCHANGED <<result, origin>>
    /\ UNCHANGED <<params, threads, shared, child, pipes, last, fs, toolchain, target,
                   build_files, built, build_result, build_spawns, case_spawns, cases,
                   passed, failed, total_duration, log, summary, cleanup_calls, tin, tout>>

\* the cases one evaluation of the loop can meet: one representative per
\* path through test_it
QuestEnvs ==
    {e \in CaseEnvs(ShortStrs) :
        \/ e.in_file # "text" /\ e.ans_file.st = "absent" /\ e.child.kind = "spawn_fail"
        \/ e.in_file = "text" /\ e.ans_file.st # "text" /\ e.child.kind = "spawn_fail"
        \/ e.in_file = "text" /\ e.ans_file.st = "absent"
             /\ e.child = [kind |-> "ok", out |-> <<>>, elapsed |-> 0]
        \/ e.in_file = "text" /\ e.ans_file.st = "text"
             /\ (e.child.kind # "ok" => e.ans_file.s = <<>>)}

HintsFor(h) == IF h THEN Hints ELSE {"plain"}

\* an accumulation that keeps the latest elapsed time only
AddDurationLatest(td, elapsed) ==
    IF IsSome(elapsed) THEN elapsed ELSE td

\* the accumulation of total_duration on a pass
AddDuration(td, elapsed) ==
    IF IsSome(td) /\ IsSome(elapsed) THEN Some(Unwrap(td) + Unwrap(elapsed))
    ELSE IF IsSome(td) THEN td
    ELSE elapsed

\* the filter of the loop body: TRUE when the case is skipped (continue)
Skipped(cid, cnt, tot) ==
    IsSome(cid) /\ (cnt % tot) # (Unwrap(cid) % tot)

\* a quest_it result that ends the invocation, had the loop applied `?` to it
PropagatedWithErr(ret) == ret \in {"panic", "err"}

\* the match on quest_it's result: Ok((false, _)) and Err(_) are both counted
\* as failed, so nothing but a panic leaves the loop
Propagated(ret) == ret = "panic"

\* what one call of quest_it leaves behind: its result r, the result of
\* the same call with use_hints = false, and whether the .ans file was there
Evaluation(p, env, r) ==
    [pos |-> p, ret |-> r.ret,
     nh |-> quest_it(target \in fs, check_prog_lang(target), toolchain, env, FALSE, "plain").ret,
     absent |-> env.ans_file.st = "absent", spawned |-> r.spawned]

LogEntry(ev, r) ==
    [pos |-> ev.pos, ret |-> ev.ret, elapsed |-> r.elapsed, nh |-> ev.nh, absent |-> ev.absent]

\* quest: one iteration of the for loop over skip(count).take(end - start)
QuestCase ==
    /\ pc = "loop" /\ it.pos < total /\ it.left > 0
    /\ it' = [pos |-> it.pos + 1, left |-> it.left - 1]
    /\ count' = count + 1
    /\ IF Skipped(case_id, count + 1, total)
       THEN UNCHANGED <<pc, result, origin, passed, failed, total_duration, log, case_spawns, last>>
       ELSE \E env \in QuestEnvs, hint \in HintsFor(use_hints) :
            LET r == quest_it(target \in fs, check_prog_lang(target), toolchain,
                              env, use_hints, hint) IN
            /\ case_spawns' = case_spawns + (IF r.spawned THEN 1 ELSE 0)
            /\ last' = Evaluation(it.pos + 1, env, r)
            /\ IF Propagated(r.ret)
               THEN /\ Return(IF r.ret = "panic" THEN "panic" ELSE "FileError", "tests")
                    /\ UNCHANGED <<passed, failed, total_duration, log>>
               ELSE /\ log' = Append(log, LogEntry(last', r))
                    /\ passed' = passed + (IF r.ret = "pass" THEN 1 ELSE 0)
                    /\ failed' = failed + (IF r.ret = "pass" THEN 0 ELSE 1)
                    /\ total_duration' = IF r.ret = "pass"
                                         THEN AddDuration(total_duration, r.elapsed)
                                         ELSE total_duration
                    /\ UNCHANGED <<pc, result, origin>>
    /\ UNCHANGED <<params, threads, shared, child, pipes, fs, toolchain, target,
                   build_files, built, build_result, build_spawns, total, cases, summary, cleanup_calls,
                   tin, tout>>

\* total_duration.map(|d| d.as_millis()).unwrap_or(0): whole milliseconds
\* of a duration counted in ticks
Millis(td) == IF IsSome(td) THEN Unwrap(td) \div TicksPerMilli ELSE 0

\* quest: the iterator is exhausted; print the summary line
QuestSummary ==
    /\ pc = "loop" /\ ~(it.pos < total /\ it.left > 0)
    /\ summary' = Some(<<passed, failed, Millis(total_duration)>>)
    /\ pc' = "cleanup"
    /\ UNCHANGED <<params, threads, shared, child, pipes, last, result, origin, fs,
                   toolchain, target, build_files, built, build_result, build_spawns, case_spawns,
                   total, cases, count, it, passed, failed, total_duration, log, cleanup_calls,
                   tin, tout>>

\* all lists of at most n stems
StemLists(n) == UNION {[1..k -> Stems] : k \in 0..n}

\* a search that tests the extension only: the first .in file, if any
FindByExtOnly(files, name) ==
    IF files = <<>> THEN None ELSE Some(1)

\* find_by_stem_and_ext over the .in files: the first whose stem is the
\* name, None when there is none
find_by_stem_and_ext(files, name) ==
    LET hits == {i \in 1..Len(files) : files[i] = name} IN
    IF hits = {} THEN None
    ELSE Some(CHOOSE i \in hits : \A j \in hits : i <= j)

\* quest_once: find_by_stem_and_ext, quest_it on the match, the summary line
QuestOnce ==
    /\ pc = "find_by_stem_and_ext"
    /\ \E files \in StemLists(MaxCases) :
        LET in_path == find_by_stem_and_ext(files, test_name) IN
        /\ cases' = files
        /\ total' = Len(files)
        /\ IF ~IsSome(in_path)
           THEN /\ Return("FileError", "find")
                /\ UNCHANGED <<passed, failed, total_duration, log, summary, case_spawns, last>>
           ELSE \E env \in QuestEnvs, hint \in HintsFor(use_hints) :
                LET r == quest_it(target \in fs, check_prog_lang(target), toolchain,
                                  env, use_hints, hint) IN
                /\ case_spawns' = case_spawns + (IF r.spawned THEN 1 ELSE 0)
                /\ last' = Evaluation(Unwrap(in_path), env, r)
                /\ IF r.ret = "panic"
                   THEN /\ Return("panic", "tests")
                        /\ UNCHANGED <<passed, failed, total_duration, log, summary>>
                   ELSE /\ log' = Append(log, LogEntry(last', r))
                        /\ passed' = IF r.ret = "pass" THEN 1 ELSE 0
                        /\ failed' = 1 - passed'
                        /\ total_duration' = IF r.ret = "pass" THEN r.elapsed ELSE None
                        /\ summary' = Some(<<passed', 1 - passed', Millis(total_duration')>>)
                        /\ pc' = "cleanup" /\ UNCHANGED <<result, origin>>
    /\ UNCHANGED <<params, threads, shared, child, pipes, fs, toolchain, target,
                   build_files, built, build_result, build_spawns, count, it,
                   cleanup_calls, tin, tout>>

\* test_program: test_it on the target (or on prog when no profile matches)
TestProgram ==
    /\ pc = "test"
    /\ \E env \in QuestEnvs :
        LET r == test_it(target \in fs, check_prog_lang(target), toolchain, env) IN
        /\ tout' = r
        /\ case_spawns' = case_spawns + (IF r.spawned THEN 1 ELSE 0)
        /\ IF r.kind = "panic" THEN Return("panic", "tests")
           ELSE /\ pc' = IF IsSome(check_prog_lang(prog)) THEN "cleanup" ELSE "finish"
                /\ UNCHANGED <<result, origin>>
    /\ UNCHANGED <<params, threads, shared, child, pipes, last, fs, toolchain, target,
                   build_files, built, build_result, build_spawns, total, cases, count, it, passed, failed,
                   total_duration, log, summary, cleanup_calls, tin>>

\* run_program: lang.run(target)
RunProgram ==
    /\ pc = "run"
    /\ \E k \in {"Ok", "ProcessError", "FileError"} :
        /\ tout' = IF k = "Ok" THEN Ok(0) ELSE Err(k, k # "ProcessError")
        /\ case_spawns' = case_spawns + 1
    /\ pc' = "cleanup"
    /\ UNCHANGED <<params, threads, shared, child, pipes, last, result, origin, fs,
                   toolchain, target, build_files, built, build_result, build_spawns, total, cases, count, it,
                   passed, failed, total_duration, log, summary, cleanup_calls, tin>>

\* cleanup_program(prog, &target, build_files)? in every caller
Cleanup ==
    /\ pc = "cleanup"
    /\ cleanup_calls' = cleanup_calls + 1
    /\ \E deny \in {"none"} \cup (fs \ {prog}) :
        LET r == cleanup_program(fs, prog, target, build_files, deny) IN
        /\ fs' = r.fs
        /\ IF r.ok THEN pc' = "finish" /\ UNCHANGED <<result, origin>>
           ELSE Return("FileError", "cleanup")
    /\ UNCHANGED <<params, threads, shared, child, pipes, last, toolchain, target,
                   build_files, built, build_result, build_spawns, case_spawns, total, cases, count, it,
                   passed, failed, total_duration, log, summary, tin, tout>>

\* the value each entry point returns after cleanup
FinalResult ==
    CASE cmd = "quest"        -> IF failed > 0 THEN "TestFailure" ELSE "Ok"
      [] cmd = "quest_once"   -> IF passed = 0 THEN "TestFailure" ELSE "Ok"
      [] cmd = "test_program" -> "Ok"
      [] OTHER                -> tout.kind

Finish ==
    /\ pc = "finish"
    /\ Return(FinalResult, "tests")
    /\ UNCHANGED <<params, threads, shared, child, pipes, last, fs, toolchain, target,
                   build_files, built, build_result, build_spawns, case_spawns, total, cases, count, it,
                   passed, failed, total_duration, log, summary, cleanup_calls, tin, tout>>

Next ==
    \/ QuestStart \/ RunStart \/ TestStart
    \/ BuildProgram \/ Build
    \/ FindByExt \/ QuestCase \/ QuestSummary \/ QuestOnce
    \/ TestProgram \/ RunProgram
    \/ Cleanup \/ Finish

Spec == Init /\ [][Next]_vars

\* ------------------------------------------------- test_it on its own
TestInputs ==
    {t \in [target_exists : BOOLEAN, lang : {None, try_prog_lang("py")},
            tc : Toolchains, env : CaseEnvs(Strs)] :
        t.lang = None => t.tc = "ok"}

InitTestIt ==
    /\ cmd = "test_it" /\ ext = "bin" /\ case_id = None
    /\ use_hints = FALSE /\ overflow_checks = FALSE /\ test_name = "s1"
    /\ pc = "call" /\ result = "running" /\ origin = "none"
    /\ fs = {} /\ toolchain = "unknown"
    /\ target = prog /\ build_files = None /\ built = FALSE /\ build_result = "none"
    /\ build_spawns = 0 /\ case_spawns = 0
    /\ total = 0 /\ cases = <<>> /\ count = 0 /\ it = [pos |-> 0, left |-> 0]
    /\ passed = 0 /\ failed = 0 /\ total_duration = None
    /\ log = <<>> /\ summary = None /\ cleanup_calls = 0
    /\ tin \in TestInputs /\ tout = Panic
    /\ last = NoEval /\ child = NoChild /\ pipes = NoPipes
    /\ threads = NoThreads /\ shared = NoShared

TestItCall ==
    /\ pc = "call"
    /\ tout' = test_it(tin.target_exists, tin.lang, tin.tc, tin.env)
    /\ case_spawns' = IF tout'.spawned THEN 1 ELSE 0
    /\ Return(tout'.kind, "tests")
    /\ UNCHANGED <<params, threads, shared, child, pipes, last, fs, toolchain, target,
                   build_files, built, build_result, build_spawns, total, cases, count, it, passed, failed,
                   total_duration, log, summary, cleanup_calls, tin>>

NextTestIt == TestItCall

SpecTestIt == InitTestIt /\ [][NextTestIt]_vars

\* ------------------------------------------- cleanup_program on its own
\* extensions with a registered profile
LangExts == {e \in Exts : IsSome(try_prog_lang(e))}

\* the target path build_program hands to the callers
TargetOf(e) ==
    IF Unwrap(try_prog_lang(e)).should_build
    THEN target_path(Unwrap(try_prog_lang(e)))
    ELSE ProgOf(e)

BuildFilesOf(e) ==
    IF Unwrap(try_prog_lang(e)).should_build
    THEN build_files_of(Unwrap(try_prog_lang(e)))
    ELSE None

\* the paths cleanup_program is given
CleanupPaths(e) ==
    {ProgOf(e), TargetOf(e)}
      \cup (IF IsSome(BuildFilesOf(e)) THEN Range(Unwrap(BuildFilesOf(e))) ELSE {})

\* two calls in a row with the same arguments, over any part of the paths
InitCleanup ==
    /\ cmd = "cleanup_program" /\ ext \in LangExts /\ case_id = None
    /\ use_hints = FALSE /\ overflow_checks = FALSE /\ test_name = "s1"
    /\ pc = "call" /\ result = "running" /\ origin = "none"
    /\ fs \in SUBSET CleanupPaths(ext) /\ toolchain = "unknown"
    /\ target = TargetOf(ext) /\ build_files = BuildFilesOf(ext)
    /\ built = FALSE /\ build_result = "none"
    /\ build_spawns = 0 /\ case_spawns = 0
    /\ total = 0 /\ cases = <<>> /\ count = 0 /\ it = [pos |-> 0, left |-> 0]
    /\ passed = 0 /\ failed = 0 /\ total_duration = None
    /\ log = <<>> /\ summary = None /\ cleanup_calls = 0
    /\ tin = [fs0 |-> fs] /\ tout = Panic
    /\ last = NoEval /\ child = NoChild /\ pipes = NoPipes
    /\ threads = NoThreads /\ shared = NoShared

CleanupCall ==
    /\ pc = "call"
    /\ cleanup_calls' = cleanup_calls + 1
    /\ \E deny \in {"none"} \cup CleanupPaths(ext) :
        LET r == cleanup_program(fs, prog, target, build_files, deny) IN
        /\ fs' = r.fs
        /\ log' = Append(log, [ok |-> r.ok, fs |-> r.fs, deny |-> deny])
        /\ IF cleanup_calls = 0 THEN UNCHANGED <<pc, result, origin>>
           ELSE Return(IF r.ok THEN "Ok" ELSE "FileError", "cleanup")
    /\ UNCHANGED <<params, threads, shared, child, pipes, last, toolchain, target,
                   build_files, built, build_result, build_spawns, case_spawns, total, cases, count, it,
                   passed, failed, total_duration, summary, tin, tout>>

NextCleanup == CleanupCall

SpecCleanup == InitCleanup /\ [][NextCleanup]_vars

\* ----------------------------------------- stdout_else_stderr on its own
\* bytes a child writes: LF, 'a', and the two bytes of U+00E9 in UTF-8
Bytes == {10, 97, 169, 195}
ByteStrs == UNION {[1..k -> Bytes] : k \in 0..MaxBytes}

\* read_to_string: the text of a byte string, None when it is not UTF-8
RECURSIVE Utf8(_)
Utf8(bs) ==
    IF bs = <<>> THEN Some(<<>>)
    ELSE IF bs[1] < 128
         THEN LET r == Utf8(Tail(bs)) IN
              IF IsSome(r)
              THEN Some(<<IF bs[1] = 10 THEN "\n" ELSE "a">> \o Unwrap(r))
              ELSE None
    ELSE IF bs[1] = 195 /\ Len(bs) >= 2 /\ bs[2] = 169
         THEN LET r == Utf8(Tail(Tail(bs))) IN
              IF IsSome(r) THEN Some(<<"U+00E9">> \o Unwrap(r)) ELSE None
    ELSE None

\* the text pushed after the contents of stderr
Note == <<"(run program manually for stack trace)">>

\* an executor that does not look at the exit status
StdoutWhateverStatus(c) ==
    IF ~c.wait_ok THEN [kind |-> "ProcessError", text |-> <<"not running">>]
    ELSE IF IsSome(Utf8(c.stdout)) THEN [kind |-> "Ok", text |-> Unwrap(Utf8(c.stdout))]
    ELSE [kind |-> "FileError", text |-> <<"failed to read stdout">>]

\* stdout_else_stderr(cmd_tag, child) for a child that exits
stdout_else_stderr(c) ==
    IF ~c.wait_ok THEN [kind |-> "ProcessError", text |-> <<"not running">>]
    ELSE IF c.success
         THEN IF IsSome(Utf8(c.stdout))
              THEN [kind |-> "Ok", text |-> Unwrap(Utf8(c.stdout))]
              ELSE [kind |-> "FileError", text |-> <<"failed to read stdout">>]
    ELSE IF IsSome(Utf8(c.stderr))
         THEN [kind |-> "ProcessError", text |-> Unwrap(Utf8(c.stderr)) \o Note]
         ELSE [kind |-> "FileError", text |-> <<"failed to read stderr">>]

\* the children handed to the executor: whether wait() works, the exit
\* status, and what the child wrote to each pipe
ExecChildren == [wait_ok : BOOLEAN, success : BOOLEAN,
                 stdout : ByteStrs, stderr : ByteStrs]

InitExec ==
    /\ cmd = "stdout_else_stderr" /\ ext = "bin" /\ case_id = None
    /\ use_hints = FALSE /\ overflow_checks = FALSE /\ test_name = "s1"
    /\ pc = "call" /\ result = "running" /\ origin = "none"
    /\ fs = {} /\ toolchain = "unknown"
    /\ target = prog /\ build_files = None /\ built = FALSE /\ build_result = "none"
    /\ build_spawns = 0 /\ case_spawns = 0
    /\ total = 0 /\ cases = <<>> /\ count = 0 /\ it = [pos |-> 0, left |-> 0]
    /\ passed = 0 /\ failed = 0 /\ total_duration = None
    /\ log = <<>> /\ summary = None /\ cleanup_calls = 0
    /\ tin \in ExecChildren /\ tout = Panic
    /\ last = NoEval /\ child = NoChild /\ pipes = NoPipes
    /\ threads = NoThreads /\ shared = NoShared

ExecCall ==
    /\ pc = "call"
    /\ tout' = stdout_else_stderr(tin)
    /\ Return(tout'.kind, "exec")
    /\ UNCHANGED <<params, threads, shared, child, pipes, last, fs, toolchain, target,
                   build_files, built, build_result, build_spawns, case_spawns, total, cases, count, it,
                   passed, failed, total_duration, log, summary, cleanup_calls, tin>>

NextExec == ExecCall

SpecExec == InitExec /\ [][NextExec]_vars

\* ------------------------------- run_cmd, run_cmd_with_stdin: the pipes
\* The parent (pc) and the child (child.pc) run side by side; a pipe holds
\* at most PipeCap bytes, a write to a full pipe and a read from an empty
\* pipe with an open write end block.  Bytes are counted, not told apart.

\* what the harness keeps outside the executor
harness == <<fs, toolchain, target, build_files, built, build_result, build_spawns,
             case_spawns, total, cases, count, it, passed, failed, total_duration,
             log, summary, cleanup_calls, last>>

\* the children: the bytes of stdin they read before they write (None:
\* all of it, up to end-of-file), whether they close their stdin once they
\* have read that much, the bytes they write to stdout and to stderr, and
\* their exit status
Programs ==
    {q \in [need : {None} \cup {Some(n) : n \in 0..MaxIn}, closes : BOOLEAN,
            out : 0..MaxOut, err : 0..MaxOut, success : BOOLEAN] :
        q.need = None => ~q.closes}

\* run_cmd leaves stdin alone: its child reads nothing from the parent
Calls ==
    {c \in [with_stdin : BOOLEAN, input : 0..MaxIn, program : Programs] :
        ~c.with_stdin => (c.input = 0 /\ c.program.need = Some(0) /\ ~c.program.closes)}

InitPipe ==
    /\ cmd = "run_cmd" /\ ext = "bin" /\ case_id = None
    /\ use_hints = FALSE /\ overflow_checks = FALSE /\ test_name = "s1"
    /\ pc = "spawn" /\ result = "running" /\ origin = "none"
    /\ fs = {} /\ toolchain = "unknown"
    /\ target = prog /\ build_files = None /\ built = FALSE /\ build_result = "none"
    /\ build_spawns = 0 /\ case_spawns = 0
    /\ total = 0 /\ cases = <<>> /\ count = 0 /\ it = [pos |-> 0, left |-> 0]
    /\ passed = 0 /\ failed = 0 /\ total_duration = None
    /\ log = <<>> /\ summary = None /\ cleanup_calls = 0
    /\ tin \in Calls /\ tout = [written |-> 0, read |-> 0, wait_ok |-> TRUE]
    /\ last = NoEval /\ child = NoChild /\ pipes = NoPipes
    /\ threads = NoThreads /\ shared = NoShared

\* cmd.stdin(piped).stdout(piped).stderr(piped).spawn()
Spawn ==
    /\ pc = "spawn"
    /\ \E spawned \in BOOLEAN :
        IF ~spawned
        THEN Return("ProcessError", "spawn") /\ UNCHANGED <<child, pipes>>
        ELSE /\ child' = [pc |-> "read", got |-> 0, wrote_out |-> 0, wrote_err |-> 0]
             /\ pipes' = [pipes EXCEPT !.stdin_open = tin.with_stdin,
                                       !.reader_open = tin.with_stdin]
             /\ pc' = IF tin.with_stdin THEN "write_all" ELSE "wait"
             /\ UNCHANGED <<result, origin>>
    /\ UNCHANGED <<params, threads, shared, harness, tin, tout>>

\* stdin.write_all(input.as_bytes()): byte after byte while the pipe has
\* room; a broken pipe once the child has closed its end or is gone; the
\* handle `stdin` is a local of run_cmd_with_stdin and stays open until the
\* function returns
WriteAll ==
    /\ pc = "write_all"
    /\ IF tout.written = tin.input
       THEN pc' = "wait" /\ UNCHANGED <<pipes, tout>>
       ELSE IF ~pipes.reader_open
       THEN pc' = "wait_on_write_error" /\ UNCHANGED <<pipes, tout>>
       ELSE /\ pipes.stdin < PipeCap
            /\ pipes' = [pipes EXCEPT !.stdin = @ + 1]
            /\ tout' = [tout EXCEPT !.written = @ + 1]
            /\ UNCHANGED pc
    /\ UNCHANGED <<params, threads, shared, harness, tin, child, result, origin>>

\* a write-error path that returns the error without child.wait()
ReturnOnWriteError ==
    /\ pc = "wait_on_write_error"
    /\ pipes' = [pipes EXCEPT !.stdin_open = FALSE]
    /\ Return("FileError", "write")
    /\ UNCHANGED <<params, threads, shared, harness, tin, tout, child>>

\* the write failed: child.wait()?, which returns when the child has
\* exited, then return the write error; nothing is read from the pipes
WaitOnWriteError ==
    /\ pc = "wait_on_write_error" /\ child.pc = "exited"
    /\ pipes' = [pipes EXCEPT !.stdin_open = FALSE]
    /\ \E wait_ok \in BOOLEAN :
        /\ tout' = [tout EXCEPT !.wait_ok = wait_ok]
        /\ Return(IF wait_ok THEN "FileError" ELSE "ProcessError", "write")
    /\ UNCHANGED <<params, threads, shared, harness, tin, child>>

\* stdout_else_stderr: child.wait() returns once the child has exited;
\* nothing is read from either pipe before
Wait ==
    /\ pc = "wait" /\ child.pc = "exited"
    /\ \E wait_ok \in BOOLEAN :
        /\ tout' = [tout EXCEPT !.wait_ok = wait_ok]
        /\ IF wait_ok THEN pc' = "read_to_string" /\ UNCHANGED <<result, origin>>
           ELSE Return("ProcessError", "wait")
    /\ UNCHANGED <<params, threads, shared, harness, tin, child, pipes>>

\* stdout_else_stderr: read stdout (success) or stderr (failure) to the
\* end; on return the handles, `stdin` included, are dropped
ReadToString ==
    /\ pc = "read_to_string"
    /\ tout' = [tout EXCEPT !.read = @ + (IF tin.program.success THEN pipes.stdout
                                          ELSE pipes.stderr)]
    /\ pipes' = NoPipes
    /\ Return(IF tin.program.success THEN "Ok" ELSE "ProcessError", "exec")
    /\ UNCHANGED <<params, threads, shared, harness, tin, child>>

\* the child reads a byte of its stdin
ChildRead ==
    /\ child.pc = "read" /\ tin.program.need # Some(child.got)
    /\ pipes.stdin > 0
    /\ pipes' = [pipes EXCEPT !.stdin = @ - 1]
    /\ child' = [child EXCEPT !.got = @ + 1]
    /\ UNCHANGED <<params, threads, shared, harness, tin, tout, pc, result, origin>>

\* the child has read what it needs, or its read returned end-of-file:
\* the pipe is empty and no write end is open; a child that closes its
\* stdin does it now
ChildReadDone ==
    /\ child.pc = "read"
    /\ \/ tin.program.need = Some(child.got)
       \/ pipes.stdin = 0 /\ ~pipes.stdin_open
    /\ child' = [child EXCEPT !.pc = "write"]
    /\ pipes' = IF tin.program.closes
                THEN [pipes EXCEPT !.stdin = 0, !.reader_open = FALSE]
                ELSE pipes
    /\ UNCHANGED <<params, threads, shared, harness, tin, tout, pc, result, origin>>

\* the child writes a byte to stdout, then to stderr
ChildWrite ==
    /\ child.pc = "write"
    /\ IF child.wrote_out < tin.program.out
       THEN /\ pipes.stdout < PipeCap
            /\ pipes' = [pipes EXCEPT !.stdout = @ + 1]
            /\ child' = [child EXCEPT !.wrote_out = @ + 1]
       ELSE /\ child.wrote_err < tin.program.err
            /\ pipes.stderr < PipeCap
            /\ pipes' = [pipes EXCEPT !.stderr = @ + 1]
            /\ child' = [child EXCEPT !.wrote_err = @ + 1]
    /\ UNCHANGED <<params, threads, shared, harness, tin, tout, pc, result, origin>>

\* the child exits once it has written everything; what is left in its
\* stdin is dropped with the read end
ChildExit ==
    /\ child.pc = "write"
    /\ child.wrote_out = tin.program.out /\ child.wrote_err = tin.program.err
    /\ child' = [child EXCEPT !.pc = "exited"]
    /\ pipes' = [pipes EXCEPT !.stdin = 0, !.reader_open = FALSE]
    /\ UNCHANGED <<params, threads, shared, harness, tin, tout, pc, result, origin>>

NextPipe ==
    \/ Spawn \/ WriteAll \/ WaitOnWriteError \/ Wait \/ ReadToString
    \/ ChildRead \/ ChildReadDone \/ ChildWrite \/ ChildExit

SpecPipe == InitPipe /\ [][NextPipe]_vars

\* ------------------------------------------ the command that runs a target
\* A path of the working directory is the sequence of the parts of its
\* file name between dots: <<"Main", "java">> is Main.java.
SrcExts == {"c", "ml", "py", "js", "java", "kt", "ts", "erl", "bin"}
SrcStems == {<<"main">>, <<"Main">>, <<"a">>, <<"sol", "py">>, <<"a", "b">>}

\* Path::extension and Path::file_stem
extension(p) == IF Len(p) >= 2 THEN Some(p[Len(p)]) ELSE None
file_stem(p) == IF Len(p) >= 2 THEN SubSeq(p, 1, Len(p) - 1) ELSE p

\* the path as one string
RECURSIVE PathStr(_)
PathStr(p) ==
    IF Len(p) = 1 THEN p[1] ELSE p[1] \o "." \o PathStr(Tail(p))

\* check_prog_lang on such a path
LangOfPath(p) ==
    IF IsSome(extension(p)) THEN try_prog_lang(Unwrap(extension(p))) ELSE None

\* the first character in upper case
Capitalized(s) ==
    CASE s = "main" -> "Main"
      [] s = "sol"  -> "Sol"
      [] s = "a"    -> "A"
      [] OTHER      -> s

\* ProgLang::target_path(parent, target_stem): fn_target_name of the
\* custom-artifact languages, the stem itself for the others
TargetPathOf(lang, target_stem) ==
    CASE lang.name = "java"       -> target_stem \o <<"class">>
      [] lang.name = "typescript" -> target_stem \o <<"js">>
      [] lang.name = "erlang"     -> target_stem \o <<"beam">>
      [] lang.name = "kotlin"     ->
            LET n == Len(target_stem)
                cap == [target_stem EXCEPT ![1] = Capitalized(@)] IN
            [cap EXCEPT ![n] = @ \o "Kt"] \o <<"class">>
      [] OTHER                    -> target_stem

\* the target build_program and its callers settle on
BuiltTarget(p) ==
    IF IsSome(LangOfPath(p)) /\ Unwrap(LangOfPath(p)).should_build
    THEN TargetPathOf(Unwrap(LangOfPath(p)), file_stem(p))
    ELSE p

\* cmd_utils::run_binary(exe), run_binary_with_stdin(exe, _): the argv
run_binary(exe) == <<"./" \o PathStr(exe)>>

\* ProgLang::run_it(path, _) of each shape: the argv of the child
run_it(lang, path) ==
    CASE lang.shape \in {"ComptimeLang", "OcamlLang"} -> run_binary(path)
      [] lang.shape = "RuntimeLang" ->
            <<lang.run_cmd_str>> \o lang.run_args \o <<PathStr(path)>>
      [] OTHER ->
            <<lang.run_cmd_str>> \o lang.run_args \o <<PathStr(file_stem(path))>>
                \o lang.post_run_args

\* run_program: lang.run(&target) with the profile of prog
RunProgramCommand(p) ==
    IF IsSome(LangOfPath(p)) THEN run_it(Unwrap(LangOfPath(p)), BuiltTarget(p))
    ELSE run_binary(p)

\* test_it(target, ..): the profile is looked up again, by the extension
\* of the target
TestItCommand(tgt) ==
    IF IsSome(LangOfPath(tgt)) THEN run_it(Unwrap(LangOfPath(tgt)), tgt)
    ELSE run_binary(tgt)

InitLang ==
    /\ cmd = "run_it" /\ ext \in SrcExts /\ case_id = None
    /\ use_hints = FALSE /\ overflow_checks = FALSE /\ test_name = "s1"
    /\ pc = "build_program" /\ result = "running" /\ origin = "none"
    /\ fs = {} /\ toolchain = "unknown"
    /\ target = <<>> /\ build_files = None /\ built = FALSE /\ build_result = "none"
    /\ build_spawns = 0 /\ case_spawns = 0
    /\ total = 0 /\ cases = <<>> /\ count = 0 /\ it = [pos |-> 0, left |-> 0]
    /\ passed = 0 /\ failed = 0 /\ total_duration = None
    /\ log = <<>> /\ summary = None /\ cleanup_calls = 0
    /\ \E st \in SrcStems : tin = [prog |-> IF ext = "bin" THEN st ELSE st \o <<ext>>]
    /\ tout = [run |-> <<>>, test |-> <<>>]
    /\ last = NoEval /\ child = NoChild /\ pipes = NoPipes
    /\ threads = NoThreads /\ shared = NoShared

\* build_program(prog): the target handed to lang.run and to test_it
LangBuild ==
    /\ pc = "build_program"
    /\ target' = BuiltTarget(tin.prog)
    /\ built' = (target' # tin.prog)
    /\ pc' = "run"
    /\ UNCHANGED <<params, threads, shared, child, pipes, last, result, origin, fs, toolchain,
                   build_files, build_result, build_spawns, case_spawns, total, cases, count, it,
                   passed, failed, total_duration, log, summary, cleanup_calls, tin, tout>>

\* the child run_program spawns for the target, and the child test_it
\* (test_program, quest, quest_once) spawns for it
LangRun ==
    /\ pc = "run"
    /\ tout' = [run |-> RunProgramCommand(tin.prog), test |-> TestItCommand(target)]
    /\ Return("Ok", "exec")
    /\ UNCHANGED <<params, threads, shared, child, pipes, last, fs, toolchain, target,
                   build_files, built, build_result, build_spawns, case_spawns, total, cases, count, it,
                   passed, failed, total_duration, log, summary, cleanup_calls, tin>>

NextLang == LangBuild \/ LangRun

SpecLang == InitLang /\ [][NextLang]_vars

\* ------------------------------------------------------------ claims
\* 1-based positions of the cases evaluated so far
Evaluated == {log[i].pos : i \in 1..Len(log)}
Fails == {i \in 1..Len(log) : log[i].ret # "pass"}
Passes == {i \in 1..Len(log) : log[i].ret = "pass"}
Printed == IsSome(summary)
PrintedPassed == Unwrap(summary)[1]
PrintedFailed == Unwrap(summary)[2]

\* the candidates the selection rule of the specification leaves
Candidates ==
    IF cmd = "quest"
    THEN IF case_id = None \/ case_id = Some(0) THEN 1..total
         ELSE {p \in 1..total : p % total = Unwrap(case_id) % total}
    ELSE {Unwrap(find_by_stem_and_ext(cases, test_name))}

\* C2: when the summary line is printed, passed + failed is the number of
\* candidates left by the selection: all N without a filter, the one case the
\* case-id rule (quest) or the name (quest_once) designates otherwise
C2_Aggregation ==
    (Printed /\ cmd \in {"quest", "quest_once"}) =>
        PrintedPassed + PrintedFailed = Cardinality(Candidates)

\* C3: a quest or quest_once invocation that got past build and discovery
\* returns Ok when failed = 0 and Err(TestFailure) when failed > 0, on every
\* path through summary and cleanup
C3_FailureIffFailed ==
    (pc = "done" /\ Printed /\ cmd \in {"quest", "quest_once"}) =>
        /\ (PrintedFailed = 0 => result = "Ok")
        /\ (PrintedFailed > 0 => result = "TestFailure")

\* the cases the loop of quest keeps: the window skip(count).take(end - start)
\* of the discovered list, filtered by the modulo test
KeptByLoop ==
    IF case_id = None THEN 1..total
    ELSE {p \in 1..total : p = Unwrap(case_id)}

\* C4: in quest every failing evaluation (Ok((false, _)) or Err(_)) is counted
\* in failed and none ends the invocation: no case is evaluated twice, once a
\* case has been evaluated the invocation returns only after the summary, and
\* the summary is printed when every case the selection kept has been evaluated
C4_FailRecordedNotFatal ==
    cmd = "quest" =>
        /\ failed = Cardinality(Fails)
        /\ passed = Cardinality(Passes)
        /\ Cardinality(Evaluated) = Len(log)
        /\ (pc = "done" /\ log # <<>>) => Printed
        /\ Printed => (Evaluated = KeptByLoop /\ PrintedFailed = Cardinality(Fails))

\* a failing case followed by further evaluations, all counted at the summary
C4_Witness ==
    /\ cmd = "quest" /\ Printed /\ Len(log) >= 2
    /\ log[1].ret = "err" /\ log[2].ret = "fail"
    /\ PrintedFailed >= 2

\* C5: quest with case id k >= 1 over N >= 1 cases evaluates exactly the case
\* at the 1-based position p with p mod N = k mod N, also when k > N
C5_Wraparound ==
    (cmd = "quest" /\ Printed /\ IsSome(case_id) /\ Unwrap(case_id) >= 1) =>
        /\ Len(log) = 1
        /\ Evaluated = {p \in 1..total : p % total = Unwrap(case_id) % total}

\* C6: quest with case id 0 evaluates all N discovered cases: it does not
\* stop on the index arithmetic and does not evaluate fewer cases
C6_ZeroMeansAll ==
    (cmd = "quest" /\ case_id = Some(0) /\ total >= 1 /\ pc \in {"cleanup", "finish", "done"}) =>
        /\ result # "panic"
        /\ Evaluated = 1..total

\* C7: quest_once with a test name that is the stem of no discovered .in
\* file returns an error, prints no summary and never reports success
C7_NoMatchIsError ==
    (cmd = "quest_once" /\ pc \notin {"start", "build_program", "build", "find_by_stem_and_ext"}
        /\ build_result \in {"Some", "None"}
        /\ \A i \in 1..Len(cases) : cases[i] # test_name) =>
        /\ pc = "done" /\ result = "FileError"
        /\ ~Printed /\ log = <<>> /\ case_spawns = 0

\* discovery found files of other stems only
C7_Witness ==
    /\ cmd = "quest_once" /\ pc = "done" /\ origin = "find"
    /\ Len(cases) >= 2 /\ \A i \in 1..Len(cases) : cases[i] # test_name
    /\ result = "FileError"

BuildErrors == {"CommandNotFound", "ProcessError", "FileError"}

\* C8: when build_program returned an error, the invocation has returned that
\* error: no child was spawned for a case, no pass/fail count was reported
C8_BuildErrorAborts ==
    build_result \in BuildErrors =>
        /\ pc = "done" /\ result = build_result
        /\ case_spawns = 0 /\ log = <<>> /\ ~Printed

\* a failed compilation in quest
C8_Witness ==
    /\ cmd = "quest" /\ build_result = "ProcessError" /\ build_spawns = 1
    /\ pc = "done" /\ result = "ProcessError"

\* C9: with a registered extension and a version check that does not
\* succeed (non-zero exit, or the binary cannot be spawned), build_program
\* returns CommandNotFound and the build command is never invoked
C9_MissingToolchain ==
    (toolchain \in {"nonzero", "nospawn"}) =>
        /\ pc = "done" /\ result = "CommandNotFound"
        /\ build_spawns = 0

\* C10: an invocation in which build_program returned a BuildLog calls
\* cleanup_program before it returns
C10_CleanupOnEveryExit ==
    (pc = "done" /\ built) => cleanup_calls >= 1

\* the run of the case succeeded: every file is there and readable, the
\* toolchain of an interpreted target answers, the child exits with success
RunSucceeded(t) ==
    /\ t.target_exists
    /\ t.env.in_file = "text" /\ t.env.ans_file.st = "text"
    /\ (IsSome(t.lang) => t.tc = "ok")
    /\ t.env.child.kind = "ok"

\* C1: test_it returns Ok(elapsed) exactly when the run succeeds and the
\* captured output equals the answer file's contents character for
\* character; a successful run whose output differs anywhere, trailing
\* newline or blank included, is Err(TestFailure)
C1_ExactMatch ==
    pc = "done" =>
        /\ (tout.kind = "Ok") <=>
              (RunSucceeded(tin) /\ tin.env.child.out = tin.env.ans_file.s)
        /\ (tout.kind = "Ok" => tout.elapsed = tin.env.child.elapsed)
        /\ (RunSucceeded(tin) /\ tin.env.child.out # tin.env.ans_file.s)
              => tout.kind = "TestFailure"

\* a run whose output is the answer plus a trailing newline is a Fail
C1_Witness ==
    /\ pc = "done" /\ RunSucceeded(tin)
    /\ tin.env.child.out = Append(tin.env.ans_file.s, "\n")
    /\ tout.kind = "TestFailure"

\* C11: a cleanup failure does not mask the original error: when the run
\* (run_program), the test (test_program) or the quest (failed > 0) produced
\* an error and cleanup_program fails too, the invocation returns the
\* run/test/TestFailure error and not the error of cleanup
C11_CleanupDoesNotMask ==
    (pc = "done" /\ origin = "cleanup") =>
        /\ (cmd \in {"run_program", "test_program"} /\ tout.kind # "Ok")
              => result = tout.kind
        /\ (cmd = "quest" /\ failed > 0) => result = "TestFailure"

\* remove_path on a path that does not exist is Ok and removes nothing
RemoveMissingIsOk ==
    \A p \in CleanupPaths(ext) \ fs, d \in {"none"} \cup CleanupPaths(ext) :
        remove_path(fs, p, d) = [fs |-> fs, ok |-> TRUE]

\* C12 as stated: of two calls of cleanup_program in a row with the same
\* arguments the second never returns an error and changes nothing, and
\* remove_path on a missing path is Ok
C12_SecondNeverErrs ==
    /\ RemoveMissingIsOk
    /\ Len(log) = 2 => (log[2].ok /\ log[2].fs = log[1].fs)

\* C12, amended: when the first of two calls in a row returned Ok, the
\* second returns Ok and changes nothing (a path that cannot be removed
\* fails the second call as it may have failed the first), and remove_path
\* on a missing path is Ok
C12_IdempotentAfterOk ==
    /\ RemoveMissingIsOk
    /\ (Len(log) = 2 /\ log[1].ok) => (log[2].ok /\ log[2].fs = log[1].fs)

\* the first call removed the target and a build file, the second was made
\* while the file system would have refused a removal
C12_Witness ==
    /\ cmd = "cleanup_program" /\ pc = "done" /\ Len(log) = 2
    /\ log[1].ok /\ log[2].ok /\ log[2].deny = target
    /\ target \in tin.fs0 /\ "main.cmx" \in tin.fs0
    /\ fs = tin.fs0 \cap {prog}

C14_OkIffSuccess ==
    (pc = "done" /\ tin.wait_ok) =>
        /\ (tout.kind = "Ok") <=> tin.success
        /\ tout.kind = "Ok" => Utf8(tin.stdout) = Some(tout.text)
        /\ ~tin.success =>
              /\ tout.kind = "ProcessError"
              /\ IsSome(Utf8(tin.stderr))
              /\ tout.text = Unwrap(Utf8(tin.stderr)) \o Note
              /\ tout = stdout_else_stderr([tin EXCEPT !.stdout = <<>>])

\* C14, amended: for a child whose exit status was collected,
\* stdout_else_stderr returns Ok if and only if the status is success and
\* stdout is valid UTF-8, and then with the full text of stdout; on a
\* non-zero exit with stderr valid UTF-8 it returns a ProcessError whose
\* detail is the text of stderr followed by the note; a pipe that is not
\* valid UTF-8 gives a FileError; on a non-zero exit the result does not
\* depend on what was written to stdout
C14_OkIffSuccessAndUtf8 ==
    (pc = "done" /\ tin.wait_ok) =>
        /\ (tout.kind = "Ok") <=> (tin.success /\ IsSome(Utf8(tin.stdout)))
        /\ tout.kind = "Ok" => Utf8(tin.stdout) = Some(tout.text)
        /\ (tin.success /\ ~IsSome(Utf8(tin.stdout))) => tout.kind = "FileError"
        /\ ~tin.success =>
              /\ IF IsSome(Utf8(tin.stderr))
                 THEN /\ tout.kind = "ProcessError"
                      /\ tout.text = Unwrap(Utf8(tin.stderr)) \o Note
                 ELSE tout.kind = "FileError"
              /\ tout = stdout_else_stderr([tin EXCEPT !.stdout = <<>>])

\* a failed child that wrote to both pipes: the detail is stderr and the note
C14_Witness ==
    /\ cmd = "stdout_else_stderr" /\ pc = "done"
    /\ tin.wait_ok /\ ~tin.success
    /\ tin.stdout = <<97, 10>> /\ tin.stderr = <<195, 169>>
    /\ tout = [kind |-> "ProcessError", text |-> <<"U+00E9">> \o Note]

\* the child of the example: reads its stdin to end-of-file, prints it
\* unchanged and exits with success
CatLike ==
    /\ tin.with_stdin /\ tin.program.need = None
    /\ tin.program.out = tin.input /\ tin.program.err = 0 /\ tin.program.success

\* C15: run_cmd_with_stdin has closed the child's stdin when it waits for
\* the child to exit, and with a child that prints its stdin unchanged it
\* does not get stuck before it returns
C15_StdinClosedBeforeWait ==
    /\ (pc = "wait" /\ tin.with_stdin) => ~pipes.stdin_open
    /\ CatLike => (pc = "done" \/ ENABLED NextPipe)

\* C16: with a child that exits once its output has been consumed (it asks
\* for no more input than it is given), run_cmd and run_cmd_with_stdin do
\* not get stuck before they return, and they return with everything the
\* child wrote to the pipe that is read, whatever the amount written
C16_DrainedWhateverSize ==
    (IsSome(tin.program.need) /\ Unwrap(tin.program.need) <= tin.input) =>
        /\ pc = "done" \/ ENABLED NextPipe
        /\ (pc = "done" /\ result = "Ok") => tout.read = tin.program.out
        /\ (pc = "done" /\ result = "ProcessError" /\ origin = "exec")
              => tout.read = tin.program.err

\* the sum of the elapsed times of the passes among the first n evaluations
RECURSIVE PassElapsed(_)
PassElapsed(n) ==
    IF n = 0 THEN 0
    ELSE PassElapsed(n - 1)
           + (IF log[n].ret = "pass" THEN Unwrap(log[n].elapsed) ELSE 0)

\* C17: the elapsed total of the summary line is the sum of the elapsed
\* durations of exactly the cases classified Pass, in whole milliseconds:
\* a failing case adds nothing wherever it stands among the passes, and the
\* total is 0 when no case passed
C17_ElapsedIsSumOfPasses ==
    (Printed /\ cmd \in {"quest", "quest_once"}) =>
        /\ Unwrap(summary)[3] = PassElapsed(Len(log)) \div TicksPerMilli
        /\ Passes = {} => Unwrap(summary)[3] = 0

\* two passes around a failure: the two elapsed times add up to 1 ms
C17_Witness ==
    /\ cmd = "quest" /\ Printed /\ Len(log) = 3
    /\ log[1].ret = "pass" /\ log[1].elapsed = Some(1)
    /\ log[2].ret # "pass"
    /\ log[3].ret = "pass" /\ log[3].elapsed = Some(1)
    /\ Unwrap(summary)[3] = 1

\* evaluations that pass, and that do not, when made with use_hints = false
PassesNoHints == {i \in 1..Len(log) : log[i].nh = "pass"}
FailsNoHints == {i \in 1..Len(log) : log[i].nh # "pass"}

\* C18: hints never change the verdict: every call of quest_it is a pass
\* (a panic) exactly when the same call with hints disabled is, so passed
\* and failed are the counts of the run without hints, and so is the
\* result returned after the summary, whatever the hint chain did
C18_HintsKeepVerdict ==
    cmd \in {"quest", "quest_once"} =>
        /\ (last.ret = "pass") <=> (last.nh = "pass")
        /\ (last.ret = "panic") <=> (last.nh = "panic")
        /\ \A i \in 1..Len(log) : (log[i].ret = "pass") <=> (log[i].nh = "pass")
        /\ passed = Cardinality(PassesNoHints)
        /\ failed = Cardinality(FailsNoHints)
        /\ (pc = "done" /\ origin = "tests" /\ ~Printed) => last.nh = "panic"
        /\ (pc = "done" /\ origin = "tests" /\ Printed) =>
              result = IF cmd = "quest"
                       THEN (IF FailsNoHints # {} THEN "TestFailure" ELSE "Ok")
                       ELSE (IF PassesNoHints = {} THEN "TestFailure" ELSE "Ok")

\* hints enabled, a failing case whose hint could not be shown by any of
\* bat, glow and the plain read, next to a passing case
C18_Witness ==
    /\ cmd = "quest" /\ use_hints /\ pc = "done" /\ origin = "tests"
    /\ Len(log) = 2
    /\ log[1].ret = "err" /\ log[1].nh = "fail"
    /\ log[2].ret = "pass"
    /\ Unwrap(summary) = <<1, 1, 0>> /\ result = "TestFailure"

\* evaluations of a case whose .ans file is absent
AnsAbsent == {i \in 1..Len(log) : log[i].absent}

\* C19: in quest and quest_once a selected case whose <stem>.ans file is
\* absent is counted in passed + failed, never as passed, no child is run
\* for it, and the invocation does not return Ok
C19_MissingAnswerFails ==
    cmd \in {"quest", "quest_once"} =>
        /\ last.absent =>
              /\ last.ret \in {"fail", "err"} /\ ~last.spawned
              /\ log # <<>> /\ log[Len(log)].pos = last.pos /\ log[Len(log)].absent
        /\ \A i \in AnsAbsent : log[i].ret # "pass"
        /\ passed + failed = Len(log)
        /\ failed >= Cardinality(AnsAbsent)
        /\ (pc = "done" /\ AnsAbsent # {}) => result \in {"TestFailure", "FileError"}

\* a case without answer file between two passes: two children, one failure
C19_Witness ==
    /\ cmd = "quest" /\ pc = "done" /\ Len(log) = 3
    /\ log[1].ret = "pass" /\ log[2].absent /\ log[2].ret = "fail" /\ log[3].ret = "pass"
    /\ case_spawns = 2
    /\ Unwrap(summary)[1] = 2 /\ Unwrap(summary)[2] = 1
    /\ result = "TestFailure"

\* C20: for every registered extension that needs a build, test_it runs
\* the built target with the command of run_program's lang.run(target); for
\* java, kotlin, typescript and erlang that is the runtime command on the
\* computed artifact name and never the artifact file run as a binary
C20_TestRunsThroughProfile ==
    (pc = "done" /\ cmd = "run_it" /\ IsSome(LangOfPath(tin.prog))
        /\ Unwrap(LangOfPath(tin.prog)).should_build) =>
        LET lang == Unwrap(LangOfPath(tin.prog)) IN
        /\ tout.test = tout.run
        /\ lang.shape \in {"CustomLang", "ErlLang"} =>
              /\ tout.test[1] = lang.run_cmd_str
              /\ tout.test # run_binary(target)

\* C21: whenever ProgLang::build returned Ok(BuildLog), the target of the
\* BuildLog exists once the build command has run: a build command that
\* exits with success without writing the computed artifact is not a
\* successful build
C21_BuiltTargetExists ==
    (build_result = "Some" /\ pc = AfterBuild /\ cmd \in {"quest", "quest_once", "test_program", "run_program"})
        => target \in fs

\* C22: test_program returns success only when the case passed: when
\* test_it returned an error (a mismatch or a failed run) the invocation
\* returns an error to its caller
C22_SingleTestSignalsFailure ==
    (cmd = "test_program" /\ pc = "done") =>
        /\ result = "Ok" => tout.kind = "Ok"
        /\ tout.kind \in {"TestFailure", "ProcessError", "FileError", "CommandNotFound"}
              => result # "Ok"

\* C23 as stated: when the write to the child's stdin fails,
\* run_cmd_with_stdin returns only once the child has exited, reads
\* nothing of the child's output, and returns the write error (FileError),
\* not a process error
C23_WriteErrorSurfaced ==
    (pc = "done" /\ origin = "write") =>
        /\ child.pc = "exited"
        /\ tout.read = 0
        /\ result = "FileError"

\* C23, amended: when the write to the child's stdin fails,
\* run_cmd_with_stdin calls child.wait() and returns only once the child
\* has exited, reads nothing of the child's output, and returns the write
\* error (FileError) when that wait succeeded; when the wait itself fails
\* it returns the ProcessError of the wait in place of the write error
C23_WriteErrorAfterWait ==
    /\ pc = "wait_on_write_error" => tout.written < tin.input
    /\ (pc = "done" /\ origin = "write") =>
        /\ child.pc = "exited"
        /\ tout.read = 0
        /\ result = IF tout.wait_ok THEN "FileError" ELSE "ProcessError"

\* the child closed its stdin early and left output in the pipe: the
\* write failed, the child was waited for, the output was not read
C23_Witness ==
    /\ cmd = "run_cmd" /\ pc = "done" /\ origin = "write" /\ result = "FileError"
    /\ tin.program.closes /\ tout.written < tin.input
    /\ child.pc = "exited" /\ child.wrote_out = 2
    /\ pipes.stdout = 2 /\ tout.read = 0

\* C24: a failing case evaluated with hints enabled makes quest_it return
\* Ok((false, None)), the result it has without hints (the per-case
\* failure line is printed on that path only), also when none of bat, glow
\* and the plain read could show the companion file
C24_HintFailureSuppressed ==
    (cmd \in {"quest", "quest_once"} /\ use_hints /\ last.nh = "fail") => last.ret = "fail"


\* ------------------------------------------ the command that builds a source
\* A text is the sequence of its pieces: a space, '=', ':' and '.' are
\* pieces of their own, so <<"-femit-bin", "=">> is "-femit-bin=".
MaxStem == 3
StemPieces == {"a", "b", " "}
BuildStems == UNION {[1..n -> StemPieces] : n \in 1..MaxStem}
BuildExts == {"c", "cr", "odin", "zig"}

\* try_prog_lang(ext): the ComptimeLang profiles with an exe_flag
ComptimeLangOf(e) ==
    CASE e = "c"    -> [build_cmd_str |-> "gcc",
                        build_args |-> <<(<<"-g">>), <<"-O2">>, <<"-std", "=", "gnu23">>,
                                         <<"-static">>, <<"-lm">>>>,
                        exe_flag |-> <<"-o">>, pos |-> "Pre"]
      [] e = "cr"   -> [build_cmd_str |-> "crystal",
                        build_args |-> <<(<<"build">>), <<"-O">>, <<"2">>, <<"--no-color">>>>,
                        exe_flag |-> <<"-o">>, pos |-> "Post"]
      [] e = "odin" -> [build_cmd_str |-> "odin",
                        build_args |-> <<(<<"build">>)>>,
                        exe_flag |-> <<"-file", " ", "-out", ":">>, pos |-> "Post"]
      [] e = "zig"  -> [build_cmd_str |-> "zig",
                        build_args |-> <<(<<"build-exe">>), <<"-O">>, <<"ReleaseFast">>>>,
                        exe_flag |-> <<"-femit-bin", "=">>, pos |-> "Pre"]

\* str::contains(ch)
Contains(s, ch) == \E i \in DOMAIN s : s[i] = ch

\* str::split(ch): the pieces between the separators, empty ones kept
RECURSIVE SplitOn(_, _)
SplitOn(s, ch) ==
    IF ~Contains(s, ch) THEN <<s>>
    ELSE LET i == CHOOSE k \in DOMAIN s : s[k] = ch /\ \A j \in 1..(k - 1) : s[j] # ch IN
         <<SubSeq(s, 1, i - 1)>> \o SplitOn(SubSeq(s, i + 1, Len(s)), ch)

\* Path::file_stem of a source path stem.ext (the stems have no dot)
StemOfSource(path) == SubSeq(path, 1, Len(path) - 2)

\* the output-flag tokens of build_cmd
ExeArg(flag, target_stem) ==
    IF Contains(flag, "=") \/ Contains(flag, ":")
    THEN LET exe_arg == flag \o target_stem IN
         IF Contains(exe_arg, " ") THEN SplitOn(exe_arg, " ") ELSE <<exe_arg>>
    ELSE <<flag, target_stem>>

\* ComptimeLang::build_cmd(path): the arguments of the compiler
build_cmd(lang, path) ==
    lang.build_args
        \o (IF lang.pos = "Post" THEN <<path>> ELSE <<>>)
        \o ExeArg(lang.exe_flag, StemOfSource(path))
        \o (IF lang.pos = "Pre" THEN <<path>> ELSE <<>>)

InitBuildCmd ==
    /\ cmd = "build_cmd" /\ ext \in BuildExts /\ case_id = None
    /\ use_hints = FALSE /\ overflow_checks = FALSE /\ test_name = "s1"
    /\ pc = "build_cmd" /\ result = "running" /\ origin = "none"
    /\ fs = {} /\ toolchain = "unknown"
    /\ target = <<>> /\ build_files = None /\ built = FALSE /\ build_result = "none"
    /\ build_spawns = 0 /\ case_spawns = 0
    /\ total = 0 /\ cases = <<>> /\ count = 0 /\ it = [pos |-> 0, left |-> 0]
    /\ passed = 0 /\ failed = 0 /\ total_duration = None
    /\ log = <<>> /\ summary = None /\ cleanup_calls = 0
    /\ \E st \in BuildStems : tin = [path |-> st \o <<".", ext>>, stem |-> st]
    /\ tout = [args |-> <<>>]
    /\ last = NoEval /\ child = NoChild /\ pipes = NoPipes
    /\ threads = NoThreads /\ shared = NoShared

\* lang.build_cmd(prog) as ProgLang::build calls it
BuildCmdCall ==
    /\ pc = "build_cmd"
    /\ tout' = [args |-> build_cmd(ComptimeLangOf(ext), tin.path)]
    /\ Return("Ok", "build_cmd")
    /\ UNCHANGED <<params, threads, shared, child, pipes, last, fs, toolchain, target,
                   build_files, built, build_result, build_spawns, case_spawns, total, cases, count, it,
                   passed, failed, total_duration, log, summary, cleanup_calls, tin>>

NextBuildCmd == BuildCmdCall

SpecBuildCmd == InitBuildCmd /\ [][NextBuildCmd]_vars

\* the output-flag tokens the flag and the stem stand for: the words of the
\* flag, the last of them joined with the stem when the flag has '=' or ':'
OutputTokens(flag, target_stem) ==
    IF Contains(flag, "=") \/ Contains(flag, ":")
    THEN LET words == SplitOn(flag, " ") IN
         [words EXCEPT ![Len(words)] = @ \o target_stem]
    ELSE <<flag, target_stem>>

\* C25: the arguments of build_cmd are the fixed flags, then the output-flag
\* tokens and the source path in the order of the ArgsPosition; the source
\* path is there exactly once; the artifact name is the file stem of the
\* source, whole, also when the stem holds a space.
C25_BuildCmdArgs ==
    (cmd = "build_cmd" /\ pc = "done") =>
        LET lang == ComptimeLangOf(ext)
            args == tout.args
            n == Len(lang.build_args)
            out == OutputTokens(lang.exe_flag, tin.stem) IN
        /\ Cardinality({i \in DOMAIN args : args[i] = tin.path}) = 1
        /\ args = lang.build_args
                    \o (IF lang.pos = "Post" THEN <<tin.path>> ELSE <<>>)
                    \o out
                    \o (IF lang.pos = "Pre" THEN <<tin.path>> ELSE <<>>)


\* C26: quest never succeeds vacuously: it returns Ok only after at least one
\* case was evaluated and passed; it never finishes with passed = 0 and
\* failed = 0 and reports success.
C26_NoVacuousSuccess ==
    (cmd = "quest" /\ pc = "done" /\ result = "Ok") =>
        /\ passed >= 1
        /\ \E i \in DOMAIN log : log[i].ret = "pass"


\* --------------------------------------- the quest and show of main.rs
\* tin.n is the number of .in files of the quest directory, in the order
\* find_by_ext lists them; tin.name is the position of the file test_name
\* names (0: no file of that stem), None without a test name.
MainCmds == {"main_quest", "show_test_case", "show_quest"}
MainNames == {None} \cup {Some(j) : j \in 0..MaxCases}

\* a filter that counts the cases from 0
MainSkippedFromZero(k, cnt, tot) == k > 0 /\ ((cnt - 1) % tot) # (k % tot)

\* main.rs quest: the case at count is skipped (continue) by the case id
MainSkipped(k, cnt, tot) == k > 0 /\ (cnt % tot) # (k % tot)

\* show_test_case, show_quest: the index of the case shown for case id k
ShowIndex(k, len) == WrappingSub(k, 1) % len

InitMain ==
    /\ cmd \in MainCmds /\ ext = "py"
    /\ case_id \in {Some(k) : k \in 0..MaxCaseId} \cup (IF cmd = "show_quest" THEN {None} ELSE {})
    /\ use_hints = FALSE /\ test_name = "s1"
    /\ overflow_checks \in (IF cmd = "show_quest" /\ case_id = Some(0) THEN BOOLEAN ELSE {FALSE})
    /\ pc = "main_start" /\ result = "running" /\ origin = "none"
    /\ fs = {} /\ toolchain = "unknown"
    /\ target = <<>> /\ build_files = None /\ built = FALSE /\ build_result = "none"
    /\ build_spawns = 0 /\ case_spawns = 0
    /\ total = 0 /\ cases = <<>> /\ count = 0 /\ it = [pos |-> 0, left |-> 0]
    /\ passed = 0 /\ failed = 0 /\ total_duration = None
    /\ log = <<>> /\ summary = None /\ cleanup_calls = 0
    /\ \E n \in 0..MaxCases, nm \in MainNames :
        /\ IsSome(nm) => cmd # "show_quest" /\ Unwrap(nm) <= n
        /\ tin = [n |-> n, name |-> nm]
    /\ tout = [shown |-> <<>>]
    /\ last = NoEval /\ child = NoChild /\ pipes = NoPipes
    /\ threads = NoThreads /\ shared = NoShared

\* main.rs quest: the program is there and built, or the call ends
MainQuestStart ==
    /\ pc = "main_start" /\ cmd = "main_quest"
    /\ \E prog_exists \in BOOLEAN, build_ok \in BOOLEAN :
        IF ~prog_exists THEN Return("FileNotFound", "prog")
        ELSE IF ~build_ok THEN Return("ProcessError", "build")
        ELSE pc' = "main_find_by_ext" /\ UNCHANGED <<result, origin>>
    /\ UNCHANGED <<params, threads, shared, child, pipes, last, fs, toolchain, target,
                   build_files, built, build_result, build_spawns, case_spawns, total, cases, count, it,
                   passed, failed, total_duration, log, summary, cleanup_calls, tin, tout>>

\* main.rs quest: find_by_ext(quest_dir, "in") and the counters
MainFindByExt ==
    /\ pc = "main_find_by_ext" /\ cmd = "main_quest"
    /\ IF tin.n = 0
       THEN Return("FileNotFound", "find") /\ UNCHANGED <<total, count, it, total_duration>>
       ELSE /\ total' = tin.n /\ count' = 0 /\ it' = [pos |-> 0, left |-> tin.n]
            /\ total_duration' = Some(0)
            /\ pc' = "main_loop" /\ UNCHANGED <<result, origin>>
    /\ UNCHANGED <<params, threads, shared, child, pipes, last, fs, toolchain, target,
                   build_files, built, build_result, build_spawns, case_spawns, cases,
                   passed, failed, log, summary, cleanup_calls, tin, tout>>

\* main.rs quest: one turn of the loop over the test cases
MainQuestCase ==
    /\ pc = "main_loop" /\ cmd = "main_quest" /\ it.left > 0
    /\ it' = [pos |-> it.pos + 1, left |-> it.left - 1]
    /\ count' = count + 1
    /\ IF \/ IsSome(tin.name) /\ Unwrap(tin.name) # count + 1
          \/ MainSkipped(Unwrap(case_id), count + 1, total)
       THEN UNCHANGED <<passed, failed, total_duration, log>>
       ELSE \E ret \in {"pass", "fail", "err"}, elapsed \in 0..MaxElapsed :
            /\ log' = Append(log, [pos |-> count + 1, ret |-> ret])
            /\ passed' = passed + (IF ret = "pass" THEN 1 ELSE 0)
            /\ failed' = failed + (IF ret = "pass" THEN 0 ELSE 1)
            /\ total_duration' = IF ret = "pass" THEN Some(Unwrap(total_duration) + elapsed)
                                 ELSE total_duration
    /\ UNCHANGED <<params, threads, shared, child, pipes, last, pc, result, origin, fs, toolchain, target,
                   build_files, built, build_result, build_spawns, case_spawns, total, cases,
                   summary, cleanup_calls, tin, tout>>

\* main.rs quest: the summary line, cleanup_program(..)?, the verdict
MainQuestSummary ==
    /\ pc = "main_loop" /\ cmd = "main_quest" /\ it.left = 0
    /\ summary' = Some(<<passed, failed, Unwrap(total_duration)>>)
    /\ cleanup_calls' = cleanup_calls + 1
    /\ \E cleanup_ok \in BOOLEAN :
        IF ~cleanup_ok THEN Return("FileError", "cleanup")
        ELSE IF failed > 0 THEN Return("TestFailure", "tests")
        ELSE Return("Ok", "tests")
    /\ UNCHANGED <<params, threads, shared, child, pipes, last, fs, toolchain, target,
                   build_files, built, build_result, build_spawns, case_spawns, total, cases, count, it,
                   passed, failed, total_duration, log, tin, tout>>

\* main.rs show_test_case: the named case, the case of the case id, or all
ShowTestCase ==
    /\ pc = "main_start" /\ cmd = "show_test_case"
    /\ LET k == Unwrap(case_id) IN
       IF IsSome(tin.name)
       THEN IF Unwrap(tin.name) = 0
            THEN Return("FileNotFound", "find") /\ UNCHANGED <<tout, total>>
            ELSE /\ tout' = [shown |-> <<Unwrap(tin.name)>>]
                 /\ Return("Ok", "show") /\ UNCHANGED total
       ELSE IF tin.n = 0
            THEN Return("FileNotFound", "find") /\ UNCHANGED <<tout, total>>
            ELSE /\ total' = tin.n
                 /\ tout' = [shown |-> IF k > 0 THEN <<ShowIndex(k, tin.n) + 1>>
                                       ELSE [i \in 1..tin.n |-> i]]
                 /\ Return("Ok", "show")
    /\ UNCHANGED <<params, threads, shared, child, pipes, last, fs, toolchain, target,
                   build_files, built, build_result, build_spawns, case_spawns, cases, count, it,
                   passed, failed, total_duration, log, summary, cleanup_calls, tin>>

\* owl_core show_quest without the tui: the case of the case id, or all
ShowQuest ==
    /\ pc = "main_start" /\ cmd = "show_quest"
    /\ IF tin.n = 0
       THEN Return("FileError", "find") /\ UNCHANGED <<tout, total>>
       ELSE IF case_id = Some(0) /\ overflow_checks
       THEN Return("panic", "select") /\ UNCHANGED <<tout, total>>
       ELSE /\ total' = tin.n
            /\ tout' = [shown |-> IF IsSome(case_id)
                                  THEN <<ShowIndex(Unwrap(case_id), tin.n) + 1>>
                                  ELSE [i \in 1..tin.n |-> i]]
            /\ Return("Ok", "show")
    /\ UNCHANGED <<params, threads, shared, child, pipes, last, fs, toolchain, target,
                   build_files, built, build_result, build_spawns, case_spawns, cases, count, it,
                   passed, failed, total_duration, log, summary, cleanup_calls, tin>>

NextMain ==
    \/ MainQuestStart \/ MainFindByExt \/ MainQuestCase \/ MainQuestSummary
    \/ ShowTestCase \/ ShowQuest

SpecMain == InitMain /\ [][NextMain]_vars

InitQuests == Init \/ InitMain
NextQuests == Next \/ NextMain
SpecQuests == InitQuests /\ [][NextQuests]_vars

\* C27: whenever quest takes count % total or case_id % total, total >= 1:
\* find_by_ext returns an error instead of an empty list, so the loop of
\* quest, in owl_core and in main.rs, is only entered with total >= 1, and a
\* turn of the loop that reaches the filter has 1 <= count.
C27_TotalPositiveAtModulo ==
    /\ (cmd \in {"quest", "main_quest"} /\ pc \in {"loop", "main_loop"}) => total >= 1
    /\ (cmd \in {"quest", "main_quest"} /\ origin = "find") =>
            total = 0 /\ count = 0 /\ log = <<>>
    /\ (cmd \in {"quest", "main_quest"} /\ log # <<>>) => total >= 1

C27_Witness ==
    /\ cmd = "quest" /\ pc = "loop" /\ case_id = Some(2) /\ total = 3
    /\ count = 2 /\ it.left = 0 /\ Len(log) = 1 /\ log[1].pos = 2


\* ------------------------------------- the threaded executor of prog_lang.rs
\* The child writes tin.program.out lines to stdout and tin.program.err lines
\* to stderr, in any order, and exits; line k of a stream is the number k.
\* A pipe holds up to PipeCap lines.  threads.out and threads.err are the
\* two reader threads; shared holds the two channels (rx1, rx2), whether
\* each sender is still there (tx1, tx2) and whether the receivers are.
MaxLines == 2
Streams == {"out", "err"}
ThreadPrograms == [out : 0..MaxLines, err : 0..MaxLines, success : BOOLEAN]
ChanOf(s) == IF s = "out" THEN "rx1" ELSE "rx2"
SenderOf(s) == IF s = "out" THEN "tx1" ELSE "tx2"

InitThreads ==
    /\ cmd = "threaded_run_cmd" /\ ext = "bin" /\ case_id = None
    /\ use_hints = FALSE /\ overflow_checks = FALSE /\ test_name = "s1"
    /\ pc = "spawn" /\ result = "running" /\ origin = "none"
    /\ fs = {} /\ toolchain = "unknown"
    /\ target = <<>> /\ build_files = None /\ built = FALSE /\ build_result = "none"
    /\ build_spawns = 0 /\ case_spawns = 0
    /\ total = 0 /\ cases = <<>> /\ count = 0 /\ it = [pos |-> 0, left |-> 0]
    /\ passed = 0 /\ failed = 0 /\ total_duration = None
    /\ log = <<>> /\ summary = None /\ cleanup_calls = 0
    /\ tin \in [program : ThreadPrograms]
    /\ tout = [merged_output |-> <<>>]
    /\ last = NoEval /\ child = NoChild /\ pipes = NoPipes
    /\ threads = NoThreads /\ shared = NoShared

\* cmd.stdout(piped).stderr(piped).spawn().expect(..), the two channels and
\* the two thread::spawn
ThreadsSpawn ==
    /\ pc = "spawn"
    /\ \E spawned \in BOOLEAN :
        IF ~spawned
        THEN Return("panic", "spawn") /\ UNCHANGED <<child, pipes, threads, shared>>
        ELSE /\ child' = [pc |-> "running", out |-> 0, err |-> 0]
             /\ pipes' = [out |-> 0, err |-> 0]
             /\ threads' = [out |-> [pc |-> "read", line |-> 0, nread |-> 0],
                            err |-> [pc |-> "read", line |-> 0, nread |-> 0]]
             /\ shared' = [rx1 |-> <<>>, rx2 |-> <<>>, tx1 |-> TRUE, tx2 |-> TRUE,
                           receivers |-> TRUE]
             /\ pc' = "select" /\ UNCHANGED <<result, origin>>
    /\ UNCHANGED <<params, harness, tin, tout>>

\* the child writes its next line to a stream whose pipe has room
ThreadsChildWrite(s) ==
    /\ child.pc = "running" /\ child[s] < tin.program[s] /\ pipes[s] < PipeCap
    /\ child' = [child EXCEPT ![s] = @ + 1]
    /\ pipes' = [pipes EXCEPT ![s] = @ + 1]
    /\ UNCHANGED <<params, harness, pc, result, origin, tin, tout, threads, shared>>

\* the child has written everything and exits: both write ends close
ThreadsChildExit ==
    /\ child.pc = "running"
    /\ child.out = tin.program.out /\ child.err = tin.program.err
    /\ child' = [child EXCEPT !.pc = "exited"]
    /\ UNCHANGED <<params, harness, pc, result, origin, tin, tout, pipes, threads, shared>>

\* reader.lines(): the next line of the pipe, or end-of-file once the
\* child has closed it; at end-of-file the thread ends and drops its sender
ReaderRead(s) ==
    /\ threads # NoThreads /\ threads[s].pc = "read"
    /\ \/ /\ pipes[s] > 0
          /\ pipes' = [pipes EXCEPT ![s] = @ - 1]
          /\ threads' = [threads EXCEPT ![s] = [pc |-> "send", line |-> @.nread + 1,
                                               nread |-> @.nread + 1]]
          /\ UNCHANGED shared
       \/ /\ pipes[s] = 0 /\ child.pc = "exited"
          /\ threads' = [threads EXCEPT ![s].pc = "done"]
          /\ shared' = [shared EXCEPT ![SenderOf(s)] = FALSE]
          /\ UNCHANGED pipes
    /\ UNCHANGED <<params, harness, pc, result, origin, tin, tout, child>>

\* tx.send(line).expect(..): an unbounded channel takes the line unless
\* the receiver is gone; then send returns Err and the thread panics
ReaderSend(s) ==
    /\ threads # NoThreads /\ threads[s].pc = "send"
    /\ IF shared.receivers
       THEN /\ shared' = [shared EXCEPT ![ChanOf(s)] = Append(@, threads[s].line)]
            /\ threads' = [threads EXCEPT ![s].pc = "read"]
       ELSE /\ threads' = [threads EXCEPT ![s].pc = "panicked"]
            /\ shared' = [shared EXCEPT ![SenderOf(s)] = FALSE]
    /\ UNCHANGED <<params, harness, pc, result, origin, tin, tout, child, pipes>>

\* select!: one receive, from a channel that is ready: it has a line, or
\* it is empty and its sender is gone (recv gives Err and expect panics)
Select ==
    /\ pc = "select"
    /\ \E s \in Streams :
        \/ /\ shared[ChanOf(s)] # <<>>
           /\ tout' = [merged_output |-> Append(tout.merged_output, <<s, Head(shared[ChanOf(s)])>>)]
           /\ shared' = [shared EXCEPT ![ChanOf(s)] = Tail(@)]
           /\ pc' = "wait" /\ UNCHANGED <<result, origin>>
        \/ /\ shared[ChanOf(s)] = <<>> /\ ~shared[SenderOf(s)]
           /\ Return("panic", "select")
           /\ shared' = [shared EXCEPT !.receivers = FALSE]
           /\ UNCHANGED tout
    /\ UNCHANGED <<params, harness, tin, child, pipes, threads>>

\* child.wait().expect(..), the status, and the return that drops rx1, rx2
ThreadsWait ==
    /\ pc = "wait" /\ child.pc = "exited"
    /\ \E wait_ok \in BOOLEAN :
        IF ~wait_ok THEN Return("panic", "wait")
        ELSE Return(IF tin.program.success THEN "Ok" ELSE "Err", "exec")
    /\ shared' = [shared EXCEPT !.receivers = FALSE]
    /\ UNCHANGED <<params, harness, tin, tout, child, pipes, threads>>

NextThreads ==
    \/ ThreadsSpawn \/ Select \/ ThreadsWait
    \/ ThreadsChildExit
    \/ \E s \in Streams : ThreadsChildWrite(s) \/ ReaderRead(s) \/ ReaderSend(s)

SpecThreads == InitThreads /\ [][NextThreads]_vars

\* C29: the threaded run_cmd returns, for a child that exits successfully,
\* a text with every line the child wrote to stdout, under every
\* interleaving; the main thread does not panic in the select when a
\* stream closes without a line, and no reader thread panics in send.
C29_ThreadedOutputComplete ==
    cmd = "threaded_run_cmd" =>
        /\ (pc = "done" /\ result = "Ok") =>
                \A k \in 1..tin.program.out :
                    \E i \in DOMAIN tout.merged_output : tout.merged_output[i] = <<"out", k>>
        /\ ~(result = "panic" /\ origin = "select")
        /\ threads # NoThreads => \A s \in Streams : threads[s].pc # "panicked"


\* ------------------------------------------- fetch_extension: the quests
\* tin.quests is the number of quests of the extension with a remote URI;
\* quest t downloads archive t.  threads[t] is the download future of
\* quest t.  shared.tmp is the file at TMP_ARCHIVE: owner 0 when there is
\* none, else the quest whose bytes it holds, whole or not; shared.dirs[t]
\* is the archive extracted into the directory of quest t (0: none);
\* shared.polling is the future the stream is polling (0: none).
MaxQuests == 2
BufferLimit == 8
NoTmp == [owner |-> 0, whole |-> FALSE]
Futures == 1..tin.quests
InFlight == {t \in Futures : threads[t].pc \notin {"idle", "Ok", "NetworkError", "FileError"}}

\* futures that run in parallel, each on a thread of its own
CanPollAlways(t) == TRUE

\* buffer_unordered polls its futures on the one task of fetch_extension:
\* a future that is polled runs up to its next await before another does
CanPoll(t) == shared.polling \in {0, t}

InitFetch ==
    /\ cmd = "fetch_extension" /\ ext = "bin" /\ case_id = None
    /\ use_hints = FALSE /\ overflow_checks = FALSE /\ test_name = "s1"
    /\ pc = "fetch_start" /\ result = "running" /\ origin = "none"
    /\ fs = {} /\ toolchain = "unknown"
    /\ target = <<>> /\ build_files = None /\ built = FALSE /\ build_result = "none"
    /\ build_spawns = 0 /\ case_spawns = 0
    /\ total = 0 /\ cases = <<>> /\ count = 0 /\ it = [pos |-> 0, left |-> 0]
    /\ passed = 0 /\ failed = 0 /\ total_duration = None
    /\ log = <<>> /\ summary = None /\ cleanup_calls = 0
    /\ tin \in [quests : 0..MaxQuests]
    /\ tout = [prompts |-> "none"]
    /\ last = NoEval /\ child = NoChild /\ pipes = NoPipes
    /\ threads = [t \in 1..tin.quests |-> [pc |-> "idle"]]
    /\ shared = [tmp |-> NoTmp, dirs |-> [t \in 1..tin.quests |-> 0], polling |-> 0]

\* the manifest and the extension document are read, or the call ends
FetchStart ==
    /\ pc = "fetch_start"
    /\ \E outcome \in {"Ok", "FileError", "TomlError", "NetworkError"} :
        IF outcome = "Ok" THEN pc' = "quest_stream" /\ UNCHANGED <<result, origin>>
        ELSE Return(outcome, "manifest")
    /\ UNCHANGED <<params, harness, tin, tout, child, pipes, threads, shared>>

\* the stream takes the next future while fewer than 8 are in flight; its
\* first poll runs it up to reqwest::get(..).await
FutureStart(t) ==
    /\ pc = "quest_stream" /\ t \in Futures /\ threads[t].pc = "idle" /\ CanPoll(t)
    /\ \A u \in 1..(t - 1) : threads[u].pc # "idle"
    /\ Cardinality(InFlight) < BufferLimit
    /\ threads' = [threads EXCEPT ![t].pc = "get"]
    /\ UNCHANGED <<params, harness, pc, result, origin, tin, tout, child, pipes, shared>>

\* download_file: the response arrives, or the request fails
FutureGet(t) ==
    /\ pc = "quest_stream" /\ t \in Futures /\ threads[t].pc = "get" /\ CanPoll(t)
    /\ \E ok \in BOOLEAN :
        threads' = [threads EXCEPT ![t].pc = IF ok THEN "bytes" ELSE "NetworkError"]
    /\ UNCHANGED <<params, harness, pc, result, origin, tin, tout, child, pipes, shared>>

\* download_file: the body arrives, or reading it fails; with the body
\* the future goes on without another await
FutureBytes(t) ==
    /\ pc = "quest_stream" /\ t \in Futures /\ threads[t].pc = "bytes" /\ CanPoll(t)
    /\ \E ok \in BOOLEAN :
        IF ok
        THEN /\ threads' = [threads EXCEPT ![t].pc = "open"]
             /\ shared' = [shared EXCEPT !.polling = t]
        ELSE /\ threads' = [threads EXCEPT ![t].pc = "NetworkError"]
             /\ UNCHANGED shared
    /\ UNCHANGED <<params, harness, pc, result, origin, tin, tout, child, pipes>>

\* download_file: OpenOptions create, truncate, write on the archive path
FutureOpen(t) ==
    /\ pc = "quest_stream" /\ t \in Futures /\ threads[t].pc = "open" /\ CanPoll(t)
    /\ \E ok \in BOOLEAN :
        IF ok
        THEN /\ threads' = [threads EXCEPT ![t].pc = "copy"]
             /\ shared' = [shared EXCEPT !.tmp = [owner |-> t, whole |-> FALSE]]
        ELSE /\ threads' = [threads EXCEPT ![t].pc = "FileError"]
             /\ shared' = [shared EXCEPT !.polling = 0]
    /\ UNCHANGED <<params, harness, pc, result, origin, tin, tout, child, pipes>>

\* download_file: copy(cursor, out_file)
FutureCopy(t) ==
    /\ pc = "quest_stream" /\ t \in Futures /\ threads[t].pc = "copy" /\ CanPoll(t)
    /\ \E ok \in BOOLEAN :
        IF ok
        THEN /\ threads' = [threads EXCEPT ![t].pc = "extract"]
             /\ shared' = [shared EXCEPT !.tmp = [owner |-> t, whole |-> TRUE]]
        ELSE /\ threads' = [threads EXCEPT ![t].pc = "FileError"]
             /\ shared' = [shared EXCEPT !.tmp = [owner |-> t, whole |-> FALSE], !.polling = 0]
    /\ UNCHANGED <<params, harness, pc, result, origin, tin, tout, child, pipes>>

\* download_archive: extract_archive(tmp_archive, out_dir)? extracts what
\* the file at the archive path holds at that moment
FutureExtract(t) ==
    /\ pc = "quest_stream" /\ t \in Futures /\ threads[t].pc = "extract" /\ CanPoll(t)
    /\ \E ok \in BOOLEAN :
        IF ok /\ shared.tmp.owner # 0 /\ shared.tmp.whole
        THEN /\ threads' = [threads EXCEPT ![t].pc = "remove"]
             /\ shared' = [shared EXCEPT !.dirs[t] = shared.tmp.owner]
        ELSE /\ threads' = [threads EXCEPT ![t].pc = "FileError"]
             /\ shared' = [shared EXCEPT !.polling = 0]
    /\ UNCHANGED <<params, harness, pc, result, origin, tin, tout, child, pipes>>

\* download_archive: remove_path(tmp_archive), the value of the future
FutureRemove(t) ==
    /\ pc = "quest_stream" /\ t \in Futures /\ threads[t].pc = "remove" /\ CanPoll(t)
    /\ \E ok \in BOOLEAN :
        IF ok /\ shared.tmp.owner # 0
        THEN /\ threads' = [threads EXCEPT ![t].pc = "Ok"]
             /\ shared' = [shared EXCEPT !.tmp = NoTmp, !.polling = 0]
        ELSE /\ threads' = [threads EXCEPT ![t].pc = "FileError"]
             /\ shared' = [shared EXCEPT !.polling = 0]
    /\ UNCHANGED <<params, harness, pc, result, origin, tin, tout, child, pipes>>

\* collect() has every value: the first error in completion order ends
\* the call (any of the errors here); else the prompts are fetched
FetchCollect ==
    /\ pc = "quest_stream"
    /\ \A t \in Futures : threads[t].pc \in {"Ok", "NetworkError", "FileError"}
    /\ IF \E t \in Futures : threads[t].pc # "Ok"
       THEN /\ \E t \in Futures : threads[t].pc # "Ok" /\ Return(threads[t].pc, "quests")
            /\ UNCHANGED tout
       ELSE \E prompts \in {"Ok", "NetworkError", "FileError", "TomlError"} :
            /\ tout' = [prompts |-> prompts]
            /\ Return(prompts, "prompts")
    /\ UNCHANGED <<params, harness, tin, child, pipes, threads, shared>>

NextFetch ==
    \/ FetchStart \/ FetchCollect
    \/ \E t \in 1..MaxQuests : FutureStart(t) \/ FutureGet(t) \/ FutureBytes(t)
    \/ \E t \in 1..MaxQuests : FutureOpen(t) \/ FutureCopy(t)
    \/ \E t \in 1..MaxQuests : FutureExtract(t) \/ FutureRemove(t)

SpecFetch == InitFetch /\ [][NextFetch]_vars

\* C30: in fetch_extension every quest directory receives the contents of
\* its own archive: between the write of the temporary archive by a
\* download and its extraction by that download no other download
\* overwrites or removes it, under every interleaving at the await points.
C30_OwnArchiveExtracted ==
    cmd = "fetch_extension" =>
        \A t \in Futures :
            /\ threads[t].pc = "extract" => shared.tmp = [owner |-> t, whole |-> TRUE]
            /\ shared.dirs[t] \in {0, t}
            /\ threads[t].pc \in {"remove", "Ok"} => shared.dirs[t] = t

C30_Witness ==
    /\ cmd = "fetch_extension" /\ tin.quests = 2
    /\ threads[1].pc = "bytes" /\ threads[2].pc = "remove"
    /\ shared.dirs[2] = 2 /\ shared.tmp = [owner |-> 2, whole |-> TRUE] /\ shared.polling = 2

====
